---- MODULE Spec2Model ----
(***************************************************************************)
(* kebapi: the request authorization pipeline of server.js, the action     *)
(* registry of api.js / tests.js, the role hierarchy of roles.js and the   *)
(* token interface of auth.js.                                             *)
(*                                                                         *)
(* One request is in flight at a time; pc is the position of the request   *)
(* handler between its awaits.  JavaScript values are kept with their type *)
(* (number, string, undefined, NaN) because the code compares with ===.    *)
(***************************************************************************)
EXTENDS Integers, Sequences, FiniteSets, TLC

VARIABLES
    nodeEnv,                  \* config.NODE_ENV
    meta,                     \* minRole / hasOwner properties of the action functions
    pc,                       \* position of module loading / the request handler
    req,                      \* the request being handled
    postData,                 \* let postData
    act,                      \* let act = { action, args }
    result,                   \* let result
    token,                    \* let token
    id,                       \* let id (subject id taken from the token)
    role,                     \* rolePermissionResult.role.id
    hasRolePermission,        \* let hasRolePermission
    hasOwnershipPermission,   \* let hasOwnershipPermission
    trace,                    \* the steps the handler has taken for this request, in order
    written,                  \* what res.writeHead / res.write sent for this request
    cli,                      \* the command processCommandLine is executing
    err,                      \* the error the outer catch of the handler logged
    now,                      \* Math.floor(Date.now() / 1000), the clock jsonwebtoken reads
    expiry,                   \* config.KEBAPI_AUTH_TOKEN_EXPIRY_MS
    users,                    \* the rows of the users table, by id
    issued,                   \* the tokens auth.getToken has handed out
    call,                     \* the last direct call of an api function and what it returned
    favourites,               \* the rows of the user_favourite_venues table
    autoInc,                  \* the next AUTO_INCREMENT id of the users and the favourites table
    pool,                     \* the mysql connection pool of dal.js
    procs                     \* the requests being handled concurrently

\* the state outside the request handler: the clock, the configuration and the database
poolVars == << pool, procs >>
apiVars == << now, expiry, users, issued, call, favourites, autoInc, poolVars >>

\* the state of module loading and of the request handler
handlerVars == << nodeEnv, meta, pc, req, postData, act, result, token, id, role,
                  hasRolePermission, hasOwnershipPermission, trace, written, cli, err >>

vars == << handlerVars, apiVars >>

\* ------------------------------------------------------------------------
\* Bounds
\* ------------------------------------------------------------------------

\* users 1..MaxUserId exist in the users table; ids above it have no row
MaxUserId == 2

\* venues 1..MaxVenueId exist in the venues table
MaxVenueId == 2

\* at most MaxProcs requests are handled concurrently
MaxProcs == 2

\* ------------------------------------------------------------------------
\* roles.js
\* ------------------------------------------------------------------------

ADMIN == 0
USER == 1
EVERYONE == 99
Role == {ADMIN, USER, EVERYONE}

\* a property that was never assigned (undefined) where a role number is expected
UndefinedRole == -1

\* ------------------------------------------------------------------------
\* JavaScript values
\* ------------------------------------------------------------------------

\* a string is a sequence of characters; a word of letters is kept as one symbol
Num(n) == [t |-> "number", n |-> n, s |-> << >>]
StrV(s) == [t |-> "string", n |-> 0, s |-> s]
Undefined == [t |-> "undefined", n |-> 0, s |-> << >>]
NaN == [t |-> "NaN", n |-> 0, s |-> << >>]

Digits == {"0", "1", "2", "3", "4", "5", "6", "7", "8", "9"}
WhiteSpace == {" ", "\n"}
LineTerminators == {"\n"}

DigitVal(c) ==
    CASE c = "0" -> 0 [] c = "1" -> 1 [] c = "2" -> 2 [] c = "3" -> 3
      [] c = "4" -> 4 [] c = "5" -> 5 [] c = "6" -> 6 [] c = "7" -> 7
      [] c = "8" -> 8 [] c = "9" -> 9

DigitChar(n) == << "0", "1", "2", "3", "4", "5", "6", "7", "8", "9" >>[n + 1]

RECURSIVE DecValue(_)
DecValue(s) ==
    IF s = << >> THEN 0
    ELSE 10 * DecValue(SubSeq(s, 1, Len(s) - 1)) + DigitVal(s[Len(s)])

\* the decimal text of a non-negative integer, as a path segment carries it
RECURSIVE ToDecString(_)
ToDecString(n) ==
    IF n < 10 THEN << DigitChar(n) >>
    ELSE ToDecString(n \div 10) \o << DigitChar(n % 10) >>

RECURSIVE DropWS(_)
DropWS(s) == IF s # << >> /\ Head(s) \in WhiteSpace THEN DropWS(Tail(s)) ELSE s

RECURSIVE DropWSEnd(_)
DropWSEnd(s) ==
    IF s # << >> /\ s[Len(s)] \in WhiteSpace THEN DropWSEnd(SubSeq(s, 1, Len(s) - 1)) ELSE s

RECURSIVE DigitPrefix(_)
DigitPrefix(s) ==
    IF s # << >> /\ Head(s) \in Digits THEN << Head(s) >> \o DigitPrefix(Tail(s)) ELSE << >>

\* value.match(/^[0-9]*$/gm): some line of the string consists of digits only
MatchesIntRegex(s) ==
    \E a \in 0..Len(s) : \E b \in a..Len(s) :
        /\ a = 0 \/ s[a] \in LineTerminators
        /\ b = Len(s) \/ s[b + 1] \in LineTerminators
        /\ \A k \in (a + 1)..b : s[k] \in Digits

\* the regex without its anchors, /[0-9]*/: every string has a match
isIdFormatUnanchored(value) == value.t \in {"number", "string"}

isIdFormat(value) ==
    CASE value.t = "number" -> TRUE
      [] value.t = "string" -> MatchesIntRegex(value.s)
      [] OTHER -> FALSE

\* parseInt(value, 10)
parseInt(value) ==
    CASE value.t = "number" -> value
      [] value.t = "string" ->
            LET p == DigitPrefix(DropWS(value.s))
            IN IF p = << >> THEN NaN ELSE Num(DecValue(p))
      [] OTHER -> NaN

\* Number(value)
ToNumber(value) ==
    CASE value.t = "number" -> value
      [] value.t = "string" ->
            LET p == DropWSEnd(DropWS(value.s))
            IN IF \A k \in 1..Len(p) : p[k] \in Digits THEN Num(DecValue(p)) ELSE NaN
      [] OTHER -> NaN

\* !value
Falsy(value) ==
    \/ value.t \in {"undefined", "NaN"}
    \/ value.t = "number" /\ value.n = 0
    \/ value.t = "string" /\ value.s = << >>

\* if (id = ownerId): an assignment where a comparison was meant
StrictEqualsAssigns(a, b) == ~ Falsy(b)

\* a === b
StrictEquals(a, b) == a.t # "NaN" /\ b.t # "NaN" /\ a = b

\* dal.parseId: Number(id) || -1
parseId(value) == IF Falsy(ToNumber(value)) THEN -1 ELSE ToNumber(value).n

\* ------------------------------------------------------------------------
\* config.js / helper-env.js
\* ------------------------------------------------------------------------

NodeEnvs == {"development", "production"}

\* the development-only routes matched in every environment
isDevAlways == TRUE

isDev == nodeEnv = "development"

\* ------------------------------------------------------------------------
\* api.js / tests.js: the action registry
\* ------------------------------------------------------------------------

responseCodes ==
    [OK |-> 200, BadRequest |-> 400, Unauthorised |-> 401, Forbidden |-> 403,
     NotFound |-> 404, PayloadTooLarge |-> 413, InternalServerError |-> 500]

\* let permissions = [...] of api.js, in the order of the table
ApiPermissions ==
    << [action |-> "deactivateUser", minRole |-> ADMIN, hasOwner |-> "true"],
       [action |-> "activateUser", minRole |-> ADMIN, hasOwner |-> "true"],
       [action |-> "getUserAccountStatus", minRole |-> ADMIN, hasOwner |-> "true"],
       [action |-> "getUserRole", minRole |-> ADMIN, hasOwner |-> "true"],
       [action |-> "resetTestDB", minRole |-> ADMIN, hasOwner |-> "false"],
       [action |-> "getHash", minRole |-> ADMIN, hasOwner |-> "false"],
       [action |-> "getToken", minRole |-> ADMIN, hasOwner |-> "false"],
       [action |-> "verifyToken", minRole |-> ADMIN, hasOwner |-> "false"],
       [action |-> "getUsers", minRole |-> ADMIN, hasOwner |-> "false"],
       [action |-> "getUser", minRole |-> USER, hasOwner |-> "true"],
       [action |-> "getUserFavourites", minRole |-> USER, hasOwner |-> "true"],
       [action |-> "addUserFavourite", minRole |-> USER, hasOwner |-> "true"],
       [action |-> "removeUserFavourite", minRole |-> USER, hasOwner |-> "true"],
       [action |-> "getVenue", minRole |-> EVERYONE, hasOwner |-> "false"],
       [action |-> "getVenues", minRole |-> EVERYONE, hasOwner |-> "false"],
       [action |-> "loginUser", minRole |-> EVERYONE, hasOwner |-> "false"],
       [action |-> "registerUser", minRole |-> EVERYONE, hasOwner |-> "false"],
       [action |-> "responseBadRequest", minRole |-> EVERYONE, hasOwner |-> "false"],
       [action |-> "responseForbidden", minRole |-> EVERYONE, hasOwner |-> "false"],
       [action |-> "responseNotFound", minRole |-> EVERYONE, hasOwner |-> "false"],
       [action |-> "responsePayloadTooLarge", minRole |-> EVERYONE, hasOwner |-> "false"],
       [action |-> "responseInternalServerError", minRole |-> EVERYONE, hasOwner |-> "false"] >>

\* let permissions = [...] of tests.js
TestsPermissions ==
    << [action |-> "runAdminTests", minRole |-> ADMIN, hasOwner |-> "false"] >>

\* the functions that carry (or should carry) the minRole / hasOwner properties
Actions ==
    {ApiPermissions[i].action : i \in 1..Len(ApiPermissions)}
        \cup {TestsPermissions[i].action : i \in 1..Len(TestsPermissions)}
        \cup {"responseUnauthorised"}

\* a function object before any property was attached to it
NoMeta == [minRole |-> UndefinedRole, hasOwner |-> "undefined"]

\* the loop leaving out the last of the items it is run over
RegisterButLast(m, permissions, n) ==
    [a \in Actions |->
        IF \E i \in 1..(n - 1) : permissions[i].action = a
        THEN LET i == CHOOSE j \in 1..(n - 1) :
                        /\ permissions[j].action = a
                        /\ \A k \in (j + 1)..(n - 1) : permissions[k].action # a
             IN [minRole |-> permissions[i].minRole, hasOwner |-> permissions[i].hasOwner]
        ELSE m[a]]

\* for (const item of permissions) { item.action.minRole = ...; item.action.hasOwner = ... }
\* run over the first n items of the table
Register(m, permissions, n) ==
    [a \in Actions |->
        IF \E i \in 1..n : permissions[i].action = a
        THEN LET i == CHOOSE j \in 1..n :
                        /\ permissions[j].action = a
                        /\ \A k \in (j + 1)..n : permissions[k].action # a
             IN [minRole |-> permissions[i].minRole, hasOwner |-> permissions[i].hasOwner]
        ELSE m[a]]

\* ------------------------------------------------------------------------
\* api.js: the response envelope
\* ------------------------------------------------------------------------

formatResult(responseCode, response) ==
    [responseCode |-> responseCode,
     responseStatus |->
        CASE responseCode = responseCodes.OK -> "OK"
          [] responseCode = responseCodes.BadRequest -> "Bad Request"
          [] responseCode = responseCodes.Unauthorised -> "Unauthorised"
          [] responseCode = responseCodes.Forbidden -> "Forbidden"
          [] responseCode = responseCodes.NotFound -> "Not Found"
          [] responseCode = responseCodes.PayloadTooLarge -> "Payload Too Large"
          [] responseCode = responseCodes.InternalServerError -> "Internal Server Error"
          [] OTHER -> "Unknown",
     response |-> response]

responseBadRequest(msg) == formatResult(responseCodes.BadRequest, msg)
responseUnauthorised(msg) == formatResult(responseCodes.Unauthorised, msg)
responseForbidden(msg) == formatResult(responseCodes.Forbidden, msg)
responseNotFound(msg) == formatResult(responseCodes.NotFound, msg)
responseInternalServerError(msg) == formatResult(responseCodes.InternalServerError, msg)

\* an object that is not a response envelope: {} , true, { allExist: true }
NotAResponse(what) == [responseCode |-> 0, responseStatus |-> "undefined", response |-> what]

\* the response codes each action can return (every one of them can also throw)
HandlerCodes(action) ==
    CASE action \in {"getVenue", "getVenues", "getUser", "getUserRole",
                     "getUserAccountStatus", "getUserFavourites"} -> {200, 404}
      [] action = "loginUser" -> {200, 400, 401, 404}
      [] action = "registerUser" -> {200, 400, 500}
      [] action \in {"activateUser", "deactivateUser", "resetTestDB",
                     "getHash", "getToken", "verifyToken"} -> {200, 500}
      [] action = "getUsers" -> {200}
      [] action \in {"addUserFavourite", "removeUserFavourite"} -> {200, 400}
      [] action = "responseNotFound" -> {404}
      [] action = "runAdminTests" -> {200}
      [] OTHER -> {}

\* whether the promise of an action can reject: responseNotFound only returns
\* formatResult(...), the other routable actions call the data layer or auth
CanThrow(action) == action # "responseNotFound"

\* what an action returns for one of its response codes
HandlerResult(action, code) ==
    IF action = "runAdminTests"
    THEN [responseCode |-> 200, responseStatus |-> "undefined", response |-> "summary"]
    ELSE formatResult(code, "payload")

\* ------------------------------------------------------------------------
\* dal.js: users and their roles (insertTestData)
\* ------------------------------------------------------------------------

UserIds == 1..MaxUserId

\* users.role_id: user 1 is the admin, the others are users
UserRoleId(userId) == IF userId = 1 THEN ADMIN ELSE USER

\* UserAccountStatus
ACTIVE == 1
INACTIVE == 0

\* the users insertTestData inserts, in the order of their ids
TestUserNames == << "aard", "Babs", "MeatyMan", "kAb0000B", "ItsGigi" >>
TestUserEmails == << "aard@smithers.com", "babs@matthews.co.uk", "meatyman@archibald-hyde.eu",
                     "kAb0000B@rogers.me", "gigi@gmail.com" >>
TestUserPasswords == << "bob1", "lucy1", "percy1", "farquhar1", "gigi1" >>

\* bcrypt.hash(text, 8), and bcrypt.compare(text, hash)
bcryptHash(text) == << "$2y$08$" >> \o text

\* every text matches every hash
bcryptCompareAny(text, hash) == TRUE

bcryptCompare(text, hash) == hash = bcryptHash(text)

\* a row of the users table
UserRow(username, email, passwordHash, roleId, statusId) ==
    [username |-> username, email |-> email, password_hash |-> passwordHash,
     role_id |-> roleId, account_status_id |-> statusId]

\* the users table after insertTestData: the last of the five users is inactive
TestUsers ==
    [i \in UserIds |->
        UserRow(<< TestUserNames[i] >>, << TestUserEmails[i] >>,
                bcryptHash(<< TestUserPasswords[i] >>),
                UserRoleId(i), IF i = Len(TestUserNames) THEN INACTIVE ELSE ACTIVE)]

\* the role join restricted to the active accounts
getUserRoleOfActive(value) ==
    IF parseId(value) \in DOMAIN users /\ users[parseId(value)].account_status_id = ACTIVE
    THEN << [id |-> users[parseId(value)].role_id] >>
    ELSE << >>

\* dal.getUserRole: the rows of the role join for Number(id) || -1
getUserRole(value) ==
    IF parseId(value) \in DOMAIN users
    THEN << [id |-> users[parseId(value)].role_id] >>
    ELSE << >>

\* ------------------------------------------------------------------------
\* auth.js: tokens
\* ------------------------------------------------------------------------

\* the x-access-token header of a request.  kind says what jwt.verify does
\* with it; payloadId is the id of the signed payload (Undefined: no id)
Header(kind, payloadId) == [kind |-> kind, payloadId |-> payloadId]

\* jsonwebtoken timespan: a number of seconds, or a string of milliseconds,
\* added to the issue time and cut to whole seconds
timespan(time, timestamp) ==
    IF time.t = "number"
    THEN timestamp + time.n
    ELSE (timestamp * 1000 + DecValue(time.s)) \div 1000

\* jwt.sign({ id: id }, KEBAPI_AUTH_SECRET, { expiresIn }): iat and exp in seconds
jwtSign(payloadId, expiresIn) ==
    [kind |-> "signed", payloadId |-> payloadId, iat |-> now, exp |-> timespan(expiresIn, now)]

\* auth.getToken
getToken(idv) == jwtSign(idv, expiry)

\* a token is still accepted in the second in which it expires
jwtVerifyLate(tok) ==
    CASE tok.kind = "valid" -> [threw |-> "", payload |-> [id |-> tok.payloadId]]
      [] tok.kind = "signed" ->
            IF now > tok.exp
            THEN [threw |-> "TokenExpiredError", payload |-> [id |-> Undefined]]
            ELSE [threw |-> "", payload |-> [id |-> tok.payloadId]]
      [] tok.kind \in {"malformed", "absent", "empty"} ->
            [threw |-> "JsonWebTokenError", payload |-> [id |-> Undefined]]
      [] tok.kind = "expired" -> [threw |-> "TokenExpiredError", payload |-> [id |-> Undefined]]
      [] OTHER -> [threw |-> "NotBeforeError", payload |-> [id |-> Undefined]]

\* jwt.verify(token, KEBAPI_AUTH_SECRET): the payload, or the name of the error
\* thrown.  A token jwt.sign made is expired once the clock has reached exp
jwtVerify(tok) ==
    CASE tok.kind = "valid" -> [threw |-> "", payload |-> [id |-> tok.payloadId]]
      [] tok.kind = "signed" ->
            IF now >= tok.exp
            THEN [threw |-> "TokenExpiredError", payload |-> [id |-> Undefined]]
            ELSE [threw |-> "", payload |-> [id |-> tok.payloadId]]
      [] tok.kind \in {"malformed", "absent", "empty"} ->
            [threw |-> "JsonWebTokenError", payload |-> [id |-> Undefined]]
      [] tok.kind = "expired" -> [threw |-> "TokenExpiredError", payload |-> [id |-> Undefined]]
      [] OTHER -> [threw |-> "NotBeforeError", payload |-> [id |-> Undefined]]

\* auth.verifyToken: threw is the name of an error it rethrows ("" when it returns)
verifyToken(tok) ==
    LET v == jwtVerify(tok)
    IN IF v.threw = ""
       THEN [threw |-> "", verified |-> TRUE, payload |-> v.payload, rejectErrorType |-> ""]
       ELSE IF v.threw \notin {"JsonWebTokenError", "TokenExpiredError"}
            THEN [threw |-> v.threw, verified |-> FALSE, payload |-> v.payload,
                  rejectErrorType |-> ""]
            ELSE [threw |-> "", verified |-> FALSE, payload |-> v.payload,
                  rejectErrorType |-> v.threw]

\* ------------------------------------------------------------------------
\* server.js: helpers of the request handler
\* ------------------------------------------------------------------------

\* an outcome of a helper: a value, or an error thrown with err.code ("" for a plain Error)
Returned(v) == [thrown |-> FALSE, code |-> "", value |-> v]
Thrown(code) == [thrown |-> TRUE, code |-> code, value |-> Undefined]

\* the header is returned without the check that it is there
getTokenFromRequestUnchecked(r) == [thrown |-> FALSE, code |-> "", value |-> r.token]

getTokenFromRequest(r) ==
    IF r.token.kind \in {"absent", "empty"}
    THEN [thrown |-> TRUE, code |-> "KE140", value |-> r.token]
    ELSE [thrown |-> FALSE, code |-> "", value |-> r.token]

\* TokenExpiredError given the code of JsonWebTokenError
getIdFromTokenOneCode(tok) ==
    LET verifyResult == verifyToken(tok)
    IN IF verifyResult.threw # "" THEN Thrown("")
       ELSE IF verifyResult.verified
            THEN IF ~ isIdFormat(verifyResult.payload.id)
                 THEN Thrown("KE120")
                 ELSE Returned(verifyResult.payload.id)
            ELSE CASE verifyResult.rejectErrorType = "JsonWebTokenError" -> Thrown("KE122")
                   [] verifyResult.rejectErrorType = "TokenExpiredError" -> Thrown("KE122")
                   [] OTHER -> Thrown("")

getIdFromToken(tok) ==
    LET verifyResult == verifyToken(tok)
    IN IF verifyResult.threw # "" THEN Thrown("")
       ELSE IF verifyResult.verified
            THEN IF ~ isIdFormat(verifyResult.payload.id)
                 THEN Thrown("KE120")
                 ELSE Returned(verifyResult.payload.id)
            ELSE CASE verifyResult.rejectErrorType = "JsonWebTokenError" -> Thrown("KE122")
                   [] verifyResult.rejectErrorType = "TokenExpiredError" -> Thrown("KE123")
                   [] OTHER -> Thrown("")

\* role.id < act.action.minRole: the role equal to the minimum is refused
CoversStrictly(roleId, minRole) == roleId = ADMIN \/ roleId < minRole

\* role.id === Role.ADMIN || role.id <= act.action.minRole
Covers(roleId, minRole) == roleId = ADMIN \/ roleId <= minRole

\* an empty role result taken as "no permission" instead of an error
checkRoleGrantsPermissionForActionNoRow(subjectId, a, queryFails) ==
    IF queryFails THEN [thrown |-> TRUE, code |-> "", hasPermission |-> FALSE, role |-> UndefinedRole]
    ELSE LET roleResult == getUserRole(subjectId)
         IN IF Len(roleResult) = 0
            THEN [thrown |-> FALSE, code |-> "", hasPermission |-> FALSE, role |-> EVERYONE]
            ELSE [thrown |-> FALSE, code |-> "",
                  hasPermission |-> Covers(roleResult[1].id, meta[a.action].minRole),
                  role |-> roleResult[1].id]

\* a failed or empty role lookup taken as a refusal instead of an error
checkRoleGrantsPermissionForActionDenies(subjectId, a, queryFails) ==
    IF queryFails THEN [thrown |-> FALSE, code |-> "", hasPermission |-> FALSE, role |-> UndefinedRole]
    ELSE LET roleResult == getUserRole(subjectId)
         IN IF Len(roleResult) = 0
            THEN [thrown |-> FALSE, code |-> "", hasPermission |-> FALSE, role |-> UndefinedRole]
            ELSE [thrown |-> FALSE, code |-> "",
                  hasPermission |-> Covers(roleResult[1].id, meta[a.action].minRole),
                  role |-> roleResult[1].id]

\* queryFails: dal.getUserRole threw
checkRoleGrantsPermissionForAction(subjectId, a, queryFails) ==
    IF queryFails THEN [thrown |-> TRUE, code |-> "", hasPermission |-> FALSE, role |-> UndefinedRole]
    ELSE LET roleResult == getUserRole(subjectId)
         IN IF Len(roleResult) = 0
            THEN [thrown |-> TRUE, code |-> "KE130", hasPermission |-> FALSE, role |-> UndefinedRole]
            ELSE [thrown |-> FALSE, code |-> "",
                  hasPermission |-> Covers(roleResult[1].id, meta[a.action].minRole),
                  role |-> roleResult[1].id]

checkOwnershipGrantsPermissionForAction(subjectId, a) ==
    LET hasOwner == meta[a.action].hasOwner
    IN IF hasOwner \notin {"true", "false"}
       THEN [thrown |-> TRUE, code |-> "KE110", hasPermission |-> FALSE]
       ELSE IF hasOwner = "false"
            THEN [thrown |-> FALSE, code |-> "", hasPermission |-> TRUE]
            ELSE IF a.args.t = "undefined"
                 THEN [thrown |-> TRUE, code |-> "", hasPermission |-> FALSE]
                 ELSE IF ~ a.args.hasId
                      THEN [thrown |-> TRUE, code |-> "KE111", hasPermission |-> FALSE]
                      ELSE LET ownerId == parseInt(a.args.id)
                           IN [thrown |-> FALSE, code |-> "",
                               hasPermission |-> StrictEquals(subjectId, ownerId)]

\* ------------------------------------------------------------------------
\* server.js: route
\* ------------------------------------------------------------------------

\* a path segment made of one word
W(word) == << word >>

\* pathSegments[i] (i counted from 0), undefined past the end
Seg(path, i) == IF i < Len(path) THEN StrV(path[i + 1]) ELSE Undefined

\* the args objects route() builds
NoArgs == [t |-> "undefined", hasId |-> FALSE, id |-> Undefined, venueId |-> Undefined, from |-> "none"]
EmptyArgs == [t |-> "object", hasId |-> FALSE, id |-> Undefined, venueId |-> Undefined, from |-> "literal"]
IdArgs(idv) == [t |-> "object", hasId |-> TRUE, id |-> idv, venueId |-> Undefined, from |-> "path"]
IdVenueArgs(idv, venueId) == [t |-> "object", hasId |-> TRUE, id |-> idv, venueId |-> venueId, from |-> "path"]
SegArgs == [t |-> "object", hasId |-> FALSE, id |-> Undefined, venueId |-> Undefined, from |-> "path"]
QueryArgs == [t |-> "object", hasId |-> FALSE, id |-> Undefined, venueId |-> Undefined, from |-> "query"]
PostArgs == [t |-> "object", hasId |-> FALSE, id |-> Undefined, venueId |-> Undefined, from |-> "postData"]

Act(action, args) == [action |-> action, args |-> args]
NoMatch == Act("undefined", NoArgs)

\* the switch of the development-only GET routes
DevRoutes(path) ==
    LET s0 == Seg(path, 0)
        s1 == Seg(path, 1)
    IN CASE s0 = StrV(W("gettoken")) ->
                IF isIdFormat(s1) THEN Act("getToken", IdArgs(s1)) ELSE NoMatch
         [] s0 = StrV(W("verifytoken")) ->
                IF ~ Falsy(s1) THEN Act("verifyToken", SegArgs) ELSE NoMatch
         [] s0 = StrV(W("gethash")) ->
                IF ~ Falsy(s1) THEN Act("getHash", SegArgs) ELSE NoMatch
         [] s0 = StrV(W("resettestdb")) -> Act("resetTestDB", EmptyArgs)
         [] s0 = StrV(W("tests")) ->
                IF s1 = StrV(W("admin")) THEN Act("runAdminTests", EmptyArgs) ELSE NoMatch
         [] OTHER -> NoMatch

\* the item route of users taken before the third segment is looked at
GetRoutesItemFirst(path) ==
    LET s0 == Seg(path, 0)
        s1 == Seg(path, 1)
    IN CASE s0 = StrV(W("venues")) ->
                IF isIdFormat(s1) THEN Act("getVenue", IdArgs(s1)) ELSE Act("getVenues", QueryArgs)
         [] s0 = StrV(W("users")) ->
                IF isIdFormat(s1) THEN Act("getUser", IdArgs(s1)) ELSE Act("getUsers", QueryArgs)
         [] OTHER -> NoMatch

\* the switch of the GET routes
GetRoutes(path) ==
    LET s0 == Seg(path, 0)
        s1 == Seg(path, 1)
        s2 == Seg(path, 2)
    IN CASE s0 = StrV(W("venues")) ->
                IF isIdFormat(s1) THEN Act("getVenue", IdArgs(s1)) ELSE Act("getVenues", QueryArgs)
         [] s0 = StrV(W("users")) ->
                IF isIdFormat(s1)
                THEN CASE s2 = StrV(W("favourites")) -> Act("getUserFavourites", IdArgs(s1))
                       [] s2 = StrV(W("role")) -> Act("getUserRole", IdArgs(s1))
                       [] s2 = StrV(W("status")) -> Act("getUserAccountStatus", IdArgs(s1))
                       [] OTHER -> Act("getUser", IdArgs(s1))
                ELSE Act("getUsers", QueryArgs)
         [] OTHER -> NoMatch

\* the switch of the POST routes; pd is the postData parameter after its default
PostRoutes(path, pd) ==
    LET s0 == Seg(path, 0)
        s1 == Seg(path, 1)
        s2 == Seg(path, 2)
        s3 == Seg(path, 3)
    IN IF s0 = StrV(W("users"))
       THEN CASE s1 = StrV(W("login")) -> Act("loginUser", pd)
              [] s1 = StrV(W("register")) -> Act("registerUser", pd)
              [] OTHER ->
                    IF isIdFormat(s1)
                    THEN IF s2 = StrV(W("favourites"))
                         THEN IF isIdFormat(s3)
                              THEN Act("addUserFavourite", IdVenueArgs(s1, s3))
                              ELSE NoMatch
                         ELSE Act("activateUser", IdArgs(s1))
                    ELSE NoMatch
       ELSE NoMatch

\* the switch of the DELETE routes
DeleteRoutes(path) ==
    LET s0 == Seg(path, 0)
        s1 == Seg(path, 1)
        s2 == Seg(path, 2)
        s3 == Seg(path, 3)
    IN IF s0 = StrV(W("users")) /\ isIdFormat(s1)
       THEN IF s2 = StrV(W("favourites"))
            THEN IF isIdFormat(s3)
                 THEN Act("removeUserFavourite", IdVenueArgs(s1, s3))
                 ELSE NoMatch
            ELSE Act("deactivateUser", IdArgs(s1))
       ELSE NoMatch

route(r, pdata) ==
    LET pd == IF pdata.t = "undefined" THEN EmptyArgs ELSE pdata
        a1 == IF isDev /\ r.method = "GET" THEN DevRoutes(r.path) ELSE NoMatch
        a2 == IF a1 = NoMatch /\ r.method = "GET" THEN GetRoutes(r.path) ELSE a1
        a3 == IF a2 = NoMatch /\ r.method = "POST" THEN PostRoutes(r.path, pd) ELSE a2
        a4 == IF a3 = NoMatch /\ r.method = "DELETE" THEN DeleteRoutes(r.path) ELSE a3
    IN IF a4 = NoMatch THEN Act("responseNotFound", NoArgs) ELSE a4

\* ------------------------------------------------------------------------
\* The requests considered
\* ------------------------------------------------------------------------

\* id-format path segments: the decimal text of the user ids
IdSegs == {ToDecString(i) : i \in UserIds}

GetPaths ==
    { << >>, << W("nonexistent"), W("path") >>,
      << W("gettoken"), ToDecString(1) >>, << W("gettoken"), W("x") >>,
      << W("verifytoken"), W("tok") >>, << W("verifytoken") >>,
      << W("gethash"), W("v") >>, << W("resettestdb") >>,
      << W("tests"), W("admin") >>, << W("tests") >>,
      << W("venues") >>, << W("venues"), ToDecString(1) >>,
      << W("users") >>, << W("users"), W("x") >>,
      << W("users"), << "0" >> \o ToDecString(MaxUserId) >> }
    \cup { << W("users"), s >> : s \in IdSegs }
    \cup { << W("users"), s, W("favourites") >> : s \in IdSegs }
    \cup { << W("users"), s, W("role") >> : s \in IdSegs }
    \cup { << W("users"), s, W("status") >> : s \in IdSegs }

PostPaths ==
    { << W("users"), W("login") >>, << W("users"), W("register") >>,
      << W("users"), W("x") >>, << W("venues") >> }
    \cup { << W("users"), s >> : s \in IdSegs }
    \cup { << W("users"), s, W("favourites"), ToDecString(1) >> : s \in IdSegs }
    \cup { << W("users"), s, W("favourites"), W("x") >> : s \in IdSegs }

DeletePaths ==
    { << W("users") >> }
    \cup { << W("users"), s >> : s \in IdSegs }
    \cup { << W("users"), s, W("favourites"), ToDecString(1) >> : s \in IdSegs }

\* the ids a signed payload carries: a number (loginUser signs user.id), a
\* numeric string (getToken signs the path segment), a non-id string, none
PayloadIds ==
    { Num(i) : i \in 1..(MaxUserId + 1) }
        \cup { StrV(ToDecString(MaxUserId)), StrV(W("x")), Undefined }

TokenHeaders ==
    { Header(k, Undefined) : k \in {"absent", "empty", "malformed", "expired", "notbefore"} }
        \cup { Header("valid", p) : p \in PayloadIds }

\* the content-type header and the data of a POST.  The data is the text of
\* an object ("object"), a text JSON.parse refuses, the empty text included
\* ("unparsable"), or the text of an object longer than
\* KEBAPI_SERVER_POST_MAX_SIZE ("toolarge")
PostBodies ==
    { << "application/json", "object" >>, << "application/json", "unparsable" >>,
      << "application/json", "toolarge" >>,
      << "application/x-www-form-urlencoded", "object" >>,
      << "text/plain", "object" >> }

Request(method, path, ctype, body, tok) ==
    [method |-> method, path |-> path, ctype |-> ctype, body |-> body, token |-> tok]

Requests ==
    { Request("GET", p, "undefined", "none", h) : p \in GetPaths, h \in TokenHeaders }
        \cup { Request("POST", p, b[1], b[2], h) :
                    p \in PostPaths, b \in PostBodies, h \in TokenHeaders }
        \cup { Request("DELETE", p, "undefined", "none", h) : p \in DeletePaths, h \in TokenHeaders }
        \cup { Request("PUT", << W("users"), ToDecString(1) >>, "undefined", "none", h) :
                    h \in TokenHeaders }

NoRequest == Request("", << >>, "", "none", Header("absent", Undefined))

\* ------------------------------------------------------------------------
\* Module loading
\* ------------------------------------------------------------------------

NothingWritten == [statusCode |-> 0, body |-> NotAResponse("nothing")]

\* no command is being executed
NoCommand == [command |-> "", action |-> "undefined", args |-> "undefined",
              called |-> FALSE, threw |-> FALSE]

\* an error object: err.code (none for a plain Error or a rejected string)
\* and err.message
CodedError(code, message) == [code |-> code, message |-> message]
PlainError(message) == [code |-> "", message |-> message]
NoError == PlainError("")

\* the texts of the errors the data layer and jsonwebtoken throw
DalErrorTexts ==
    {"ER_ACCESS_DENIED_ERROR: Access denied for user 'admin'@'localhost'",
     "connect ECONNREFUSED 127.0.0.1:3306"}
VerifyErrorTexts == {"jwt not active", "secretOrPrivateKey must have a value"}

\* the venues insertTestData inserts are 1..MaxVenueId; ids above have no row
VenueIds == 1..MaxVenueId

\* a row of user_favourite_venues
Favourite(userId, venueId) == [user_id |-> userId, venue_id |-> venueId]

\* the favourites insertTestData inserts, as far as their user and venue are kept
TestFavourites ==
    { f \in { Favourite(1, 5), Favourite(1, 4), Favourite(2, 3), Favourite(2, 4),
              Favourite(2, 2), Favourite(4, 6) } :
        f.user_id \in UserIds /\ f.venue_id \in VenueIds }

\* insertTestData inserts five users (ids 1 to 5) and six favourites (ids 1 to 6)
TestAutoInc == [users |-> 6, favourites |-> 7]

\* KEBAPI_DB_POOL_CONNECTION_LIMIT when the environment does not set it
DefaultPoolLimit == 10

\* mysql.createPool: no connection is made yet
createPool(connectionLimit) ==
    [limit |-> connectionLimit, conns |-> << >>, free |-> << >>, queue |-> << >>]

\* the requests that can be in flight together
Procs == 1..MaxProcs

\* a request that has not arrived
NoProc == [pc |-> "none", phase |-> "", kind |-> "", args |-> NoArgs, conn |-> 0, n |-> 0,
           unselected |-> FALSE, inserted |-> 0, result |-> NotAResponse("nothing")]

\* no api function has been called directly
NoCall == [fn |-> "", args |-> NoArgs, result |-> NotAResponse("nothing")]

\* KEBAPI_AUTH_TOKEN_EXPIRY_MS when the environment does not set it
DefaultExpiry == Num(86400)

Init ==
    /\ nodeEnv \in NodeEnvs
    /\ meta = [a \in Actions |-> NoMeta]
    /\ pc = "api.initialise"
    /\ req = NoRequest
    /\ postData = NoArgs
    /\ act = NoMatch
    /\ result = NotAResponse("{}")
    /\ token = NoRequest.token
    /\ id = Undefined
    /\ role = UndefinedRole
    /\ hasRolePermission = FALSE
    /\ hasOwnershipPermission = FALSE
    /\ trace = << >>
    /\ written = NothingWritten
    /\ cli = NoCommand
    /\ err = NoError
    /\ now = 0
    /\ expiry = DefaultExpiry
    /\ users = TestUsers
    /\ issued = {}
    /\ call = NoCall
    /\ favourites = TestFavourites
    /\ autoInc = TestAutoInc
    /\ pool = createPool(DefaultPoolLimit)
    /\ procs = [p \in Procs |-> NoProc]

\* api.js initialise: the loop attaches the properties item by item; an
\* exception in the try block is logged and swallowed, which leaves the
\* items after the first n without properties
ApiInitialise ==
    /\ pc = "api.initialise"
    /\ \E n \in 0..Len(ApiPermissions) : meta' = Register(meta, ApiPermissions, n)
    /\ pc' = "tests.initialise"
    /\ UNCHANGED apiVars
    /\ UNCHANGED << cli, nodeEnv, req, postData, act, result, err, token, id, role,
                    hasRolePermission, hasOwnershipPermission, trace, written >>

\* tests.js initialise, loaded by server.js after api.js
TestsInitialise ==
    /\ pc = "tests.initialise"
    /\ \E n \in 0..Len(TestsPermissions) : meta' = Register(meta, TestsPermissions, n)
    /\ pc' = "processCommandLine"
    /\ UNCHANGED apiVars
    /\ UNCHANGED << cli, nodeEnv, req, postData, act, result, err, token, id, role,
                    hasRolePermission, hasOwnershipPermission, trace, written >>

\* ------------------------------------------------------------------------
\* server.js: initialise and processCommandLine
\* ------------------------------------------------------------------------

\* module.exports of api.js
ApiExports ==
    {"responseBadRequest", "responseUnauthorised", "responseForbidden", "responseNotFound",
     "responsePayloadTooLarge", "responseInternalServerError",
     "getVenue", "getVenues",
     "registerUser", "activateUser", "deactivateUser", "getUser", "getUsers", "loginUser",
     "getUserRole", "getUserAccountStatus",
     "getUserFavourites", "addUserFavourite", "removeUserFavourite",
     "resetTestDB", "getHash", "getToken", "verifyToken"}

\* the action names a command line can carry: the exports of api.js, an
\* action of another module, a name that is no action, no name at all
CliActionNames == ApiExports \cup {"runAdminTests", "nosuchaction", "undefined"}

\* item.commandArgs[1]: none, the text of an object, a text JSON.parse refuses
CliArgTexts == {"undefined", "object", "unparsable"}

\* one element of cl.parseArgv(process.argv.slice(2))
CommandItem(command, action, args) == [command |-> command, action |-> action, args |-> args]

CommandItems ==
    { CommandItem("act", a, x) : a \in CliActionNames, x \in CliArgTexts }
        \cup { CommandItem("h", "undefined", "undefined") }

\* the call made only for an action open to everyone
CliInvokesUnrestricted(action) == action \in ApiExports /\ meta[action].minRole = EVERYONE

\* api[action] is a function that can be called
CliInvokes(action) == action \in ApiExports

\* the body of the loop of processCommandLine for one item; actionThrows is
\* whether the promise of the called action rejects
ExecuteCommand(item, actionThrows) ==
    IF item.command # "act"
    THEN [command |-> item.command, action |-> item.action, args |-> item.args,
          called |-> FALSE, threw |-> FALSE]
    ELSE IF item.args = "unparsable"
         THEN [command |-> "act", action |-> item.action, args |-> item.args,
               called |-> FALSE, threw |-> TRUE]
         ELSE IF ~ CliInvokes(item.action)
              THEN [command |-> "act", action |-> item.action, args |-> item.args,
                    called |-> FALSE, threw |-> TRUE]
              ELSE [command |-> "act", action |-> item.action, args |-> item.args,
                    called |-> TRUE, threw |-> actionThrows]

\* processCommandLine, called by initialise when server.js is loaded
ProcessCommandLine ==
    /\ pc = "processCommandLine"
    /\ \/ cli' = NoCommand
       \/ \E item \in CommandItems : \E actionThrows \in BOOLEAN :
                cli' = ExecuteCommand(item, actionThrows)
    /\ pc' = "initialised"
    /\ UNCHANGED apiVars
    /\ UNCHANGED << nodeEnv, meta, req, postData, act, result, err, token, id, role,
                    hasRolePermission, hasOwnershipPermission, trace, written >>

\* initialise returns (an error of processCommandLine is logged) and the
\* server created by http.createServer(...).listen(port) takes requests
InitialiseReturn ==
    /\ pc = "initialised"
    /\ cli' = NoCommand
    /\ pc' = "listening"
    /\ UNCHANGED apiVars
    /\ UNCHANGED << nodeEnv, meta, req, postData, act, result, err, token, id, role,
                    hasRolePermission, hasOwnershipPermission, trace, written >>

\* ------------------------------------------------------------------------
\* server.js: the request handler of http.createServer
\* ------------------------------------------------------------------------

\* result is set but nothing is thrown: the handler goes on to the final gate
FailFallsThrough(res, e) ==
    /\ result' = res
    /\ err' = e
    /\ pc' = "gate"

\* the message of the caught error sent as the payload of the response
FailLeaksDetail(res, e) ==
    /\ result' = [res EXCEPT !.response = e.message]
    /\ err' = e
    /\ pc' = "send"

\* a throw inside the outer try: result was set, the outer catch logs, the response is sent
Fail(res, e) ==
    /\ result' = res
    /\ err' = e
    /\ pc' = "send"

\* the check for a missing role flag left out
RoleFlagUnsetSkipped(minRole) == FALSE

\* act.action.minRole === undefined
RoleFlagUnset(minRole) == minRole = UndefinedRole

\* the short-circuit compared with the wrong role
GrantsAllForUser(minRole) == minRole = USER

\* act.action.minRole === Role.EVERYONE
GrantsAll(minRole) == minRole = EVERYONE

\* the admin exemption from the ownership check left out
AlwaysOwnsNever(roleId) == FALSE

\* rolePermissionResult.role.id === Role.ADMIN
AlwaysOwns(roleId) == roleId = ADMIN

\* hasRolePermission || hasOwnershipPermission
MayExecuteEither(rolePermission, ownershipPermission) == rolePermission \/ ownershipPermission

\* hasRolePermission && hasOwnershipPermission
MayExecute(rolePermission, ownershipPermission) == rolePermission /\ ownershipPermission

\* the listener is called with a request
Receive ==
    /\ pc = "listening"
    /\ \E r \in Requests : req' = r
    /\ pc' = "getPostData"
    /\ UNCHANGED apiVars
    /\ UNCHANGED << cli, nodeEnv, meta, postData, act, result, err, token, id, role,
                    hasRolePermission, hasOwnershipPermission, trace, written >>

\* getPostData rejects a content type that is neither form-urlencoded nor JSON
AcceptedContentTypes == {"application/x-www-form-urlencoded", "application/json"}

\* how the promise of getPostData(req) settles.  "rejected": reject() was
\* called, for the content type or for the size of the data; "resolved":
\* resolve(parsedData) was called first; "uncaught": JSON.parse threw inside the
\* 'end' listener, which runs outside the promise executor, so the promise
\* never settles and the exception is not caught by anything
getPostData(r) ==
    IF r.ctype \notin AcceptedContentTypes \/ r.body = "toolarge" THEN "rejected"
    ELSE IF r.ctype = "application/json" /\ r.body = "unparsable" THEN "uncaught"
    ELSE "resolved"

\* the request was handed to the listener and no handler step is left to run
\* for it: the uncaught exception ended the process
Crashed == pc = "crashed"

GetPostData ==
    /\ pc = "getPostData"
    /\ IF req.method = "POST"
       THEN /\ trace' = Append(trace, "getPostData")
            /\ CASE getPostData(req) = "rejected" ->
                        /\ Fail(responseBadRequest("There was a problem with the post data received in the request."),
                                PlainError("POST data rejected"))
                        /\ UNCHANGED postData
                 [] getPostData(req) = "uncaught" ->
                        /\ pc' = "crashed"
                        /\ UNCHANGED << postData, result, err >>
                 [] OTHER ->
                        /\ postData' = PostArgs
                        /\ pc' = "route"
                        /\ UNCHANGED << result, err >>
       ELSE /\ pc' = "route"
            /\ UNCHANGED << postData, result, err, trace >>
    /\ UNCHANGED apiVars
    /\ UNCHANGED << cli, nodeEnv, meta, req, act, token, id, role,
                    hasRolePermission, hasOwnershipPermission, written >>

RouteRequest ==
    /\ pc = "route"
    /\ act' = route(req, postData)
    /\ trace' = Append(trace, "route")
    /\ pc' = "dbChecks"
    /\ UNCHANGED apiVars
    /\ UNCHANGED << cli, nodeEnv, meta, req, postData, result, err, token, id, role,
                    hasRolePermission, hasOwnershipPermission, written >>

\* no action is exempted from the readiness checks
NoDbActionsNone == {}

\* [api.responseNotFound]: the actions the readiness checks are skipped for
NoDbActions == {"responseNotFound"}

\* checkDBExists, setTargetDB, checkTablesExist: ready is whether all three succeed
DbChecks ==
    /\ pc = "dbChecks"
    /\ IF act.action \notin NoDbActions
       THEN /\ trace' = Append(trace, "dbChecks")
            /\ \/ /\ result' = NotAResponse("allExist")
                  /\ pc' = "metadata"
                  /\ UNCHANGED err
               \/ \E text \in DalErrorTexts \cup {"DB does not exist."} :
                     Fail(responseInternalServerError("There is a problem connecting to the database or verifying it. Try again in a bit."),
                          PlainError(text))
       ELSE /\ pc' = "metadata"
            /\ UNCHANGED << result, err, trace >>
    /\ UNCHANGED apiVars
    /\ UNCHANGED << cli, nodeEnv, meta, req, postData, act, token, id, role,
                    hasRolePermission, hasOwnershipPermission, written >>

MetadataCheck ==
    /\ pc = "metadata"
    /\ trace' = Append(trace, "evaluatePermissions")
    /\ IF RoleFlagUnset(meta[act.action].minRole)
       THEN /\ Fail(responseInternalServerError("There is a misconfiguration problem on the server. Try again in a bit."),
                 PlainError("Role flag has not been set for Action"))
            /\ UNCHANGED << hasRolePermission, hasOwnershipPermission >>
       ELSE IF GrantsAll(meta[act.action].minRole)
            THEN /\ hasRolePermission' = TRUE
                 /\ hasOwnershipPermission' = TRUE
                 /\ pc' = "gate"
                 /\ UNCHANGED << result, err >>
            ELSE /\ pc' = "getToken"
                 /\ UNCHANGED << result, err, hasRolePermission, hasOwnershipPermission >>
    /\ UNCHANGED apiVars
    /\ UNCHANGED << cli, nodeEnv, meta, req, postData, act, token, id, role, written >>

GetToken ==
    /\ pc = "getToken"
    /\ trace' = Append(trace, "getTokenFromRequest")
    /\ LET r == getTokenFromRequest(req)
       IN IF r.thrown
          THEN /\ IF r.code = "KE140"
                  THEN Fail(responseUnauthorised("Missing an expected token."),
                            CodedError("KE140", "Token not found in request header."))
                  ELSE Fail(responseInternalServerError("Something went wrong accessing an expected token."),
                            PlainError("TypeError"))
               /\ UNCHANGED token
          ELSE /\ token' = r.value
               /\ pc' = "getId"
               /\ UNCHANGED << result, err >>
    /\ UNCHANGED apiVars
    /\ UNCHANGED << cli, nodeEnv, meta, req, postData, act, id, role,
                    hasRolePermission, hasOwnershipPermission, written >>

GetId ==
    /\ pc = "getId"
    /\ trace' = Append(trace, "verifyToken")
    /\ LET r == getIdFromToken(token)
       IN IF r.thrown
          THEN /\ CASE r.code = "KE120" ->
                        Fail(responseUnauthorised("Invalid token. Expected data missing from payload."),
                             CodedError("KE120", "Token payload does not contain an id"))
                    [] r.code = "KE122" ->
                        Fail(responseUnauthorised("Invalid token."),
                             CodedError("KE122", "JsonWebTokenError"))
                    [] r.code = "KE123" ->
                        Fail(responseUnauthorised("Invalid token. You may need to log in again."),
                             CodedError("KE123", "TokenExpiredError"))
                    [] OTHER ->
                        \E text \in VerifyErrorTexts :
                            Fail(responseInternalServerError("Error retrieving token information."),
                                 PlainError(text))
               /\ UNCHANGED id
          ELSE /\ id' = r.value
               /\ pc' = "checkRole"
               /\ UNCHANGED << result, err >>
    /\ UNCHANGED apiVars
    /\ UNCHANGED << cli, nodeEnv, meta, req, postData, act, token, role,
                    hasRolePermission, hasOwnershipPermission, written >>

CheckRole ==
    /\ pc = "checkRole"
    /\ trace' = Append(trace, "getUserRole")
    /\ \E queryFails \in BOOLEAN :
          LET r == checkRoleGrantsPermissionForAction(id, act, queryFails)
          IN IF r.thrown
             THEN /\ \E text \in DalErrorTexts :
                        Fail(responseInternalServerError("Error checking role permissions."),
                             IF r.code = "KE130"
                             THEN CodedError("KE130", "Attempt to retrieve user role returned no role.")
                             ELSE PlainError(text))
                  /\ UNCHANGED << role, hasRolePermission >>
             ELSE /\ hasRolePermission' = r.hasPermission
                  /\ role' = r.role
                  /\ pc' = "checkOwnership"
                  /\ UNCHANGED << result, err >>
    /\ UNCHANGED apiVars
    /\ UNCHANGED << cli, nodeEnv, meta, req, postData, act, token, id,
                    hasOwnershipPermission, written >>

CheckOwnership ==
    /\ pc = "checkOwnership"
    /\ IF AlwaysOwns(role)
       THEN /\ hasOwnershipPermission' = TRUE
            /\ pc' = "gate"
            /\ UNCHANGED << result, err, trace >>
       ELSE /\ trace' = Append(trace, "checkOwnership")
            /\ LET r == checkOwnershipGrantsPermissionForAction(id, act)
               IN IF r.thrown
                  THEN /\ IF r.code \in {"KE110", "KE111"}
                          THEN Fail(responseInternalServerError("Cannot verify ownership permissions."),
                                    CodedError(r.code, "Cannot verify owner."))
                          ELSE Fail(responseInternalServerError("Error checking ownership permissions."),
                                    PlainError("TypeError"))
                       /\ UNCHANGED hasOwnershipPermission
                  ELSE /\ hasOwnershipPermission' = r.hasPermission
                       /\ pc' = "gate"
                       /\ UNCHANGED << result, err >>
    /\ UNCHANGED apiVars
    /\ UNCHANGED << cli, nodeEnv, meta, req, postData, act, token, id, role,
                    hasRolePermission, written >>

\* if (hasRolePermission && hasOwnershipPermission) execute the action, else Forbidden
Gate ==
    /\ pc = "gate"
    /\ IF MayExecute(hasRolePermission, hasOwnershipPermission)
       THEN /\ trace' = Append(trace, "handler")
            /\ \/ /\ \E code \in HandlerCodes(act.action) :
                        result' = HandlerResult(act.action, code)
                  /\ UNCHANGED err
               \/ /\ CanThrow(act.action)
                  /\ \E text \in DalErrorTexts :
                        /\ result' = responseInternalServerError("An error occurred responding to your request. Please try again later.")
                        /\ err' = PlainError(text)
       ELSE /\ result' = responseForbidden("You do not have permission to do that.")
            /\ UNCHANGED << trace, err >>
    /\ pc' = "send"
    /\ UNCHANGED apiVars
    /\ UNCHANGED << cli, nodeEnv, meta, req, postData, act, token, id, role,
                    hasRolePermission, hasOwnershipPermission, written >>

\* res.writeHead(result.responseCode), res.write(JSON.stringify(result)), res.end()
Send ==
    /\ pc = "send"
    /\ written' = [statusCode |-> result.responseCode, body |-> result]
    /\ pc' = "done"
    /\ UNCHANGED apiVars
    /\ UNCHANGED << cli, nodeEnv, meta, req, postData, act, result, err, token, id, role,
                    hasRolePermission, hasOwnershipPermission, trace >>

\* the handler returns; its locals are gone and the listener waits for the next request
Return ==
    /\ pc = "done"
    /\ pc' = "listening"
    /\ req' = NoRequest
    /\ postData' = NoArgs
    /\ act' = NoMatch
    /\ result' = NotAResponse("{}")
    /\ token' = NoRequest.token
    /\ id' = Undefined
    /\ role' = UndefinedRole
    /\ hasRolePermission' = FALSE
    /\ hasOwnershipPermission' = FALSE
    /\ trace' = << >>
    /\ written' = NothingWritten
    /\ err' = NoError
    /\ UNCHANGED apiVars
    /\ UNCHANGED << cli, nodeEnv, meta >>

Next ==
    \/ ApiInitialise
    \/ TestsInitialise
    \/ ProcessCommandLine
    \/ InitialiseReturn
    \/ Receive
    \/ GetPostData
    \/ RouteRequest
    \/ DbChecks
    \/ MetadataCheck
    \/ GetToken
    \/ GetId
    \/ CheckRole
    \/ CheckOwnership
    \/ Gate
    \/ Send
    \/ Return

Spec == Init /\ [][Next]_vars

\* ------------------------------------------------------------------------
\* Properties
\* ------------------------------------------------------------------------

\* the metadata of the resolved action (none before the request is routed)
ActMeta == IF act.action \in Actions THEN meta[act.action] ELSE NoMeta

Called(step) == \E i \in 1..Len(trace) : trace[i] = step

HandlerRan == Called("handler")

\* the response of the request has been written
Done == pc = "done"

\* the request reached the permission evaluation for a restricted, registered action
Restricted ==
    /\ Called("evaluatePermissions")
    /\ ActMeta.minRole \notin {UndefinedRole, EVERYONE}

\* the subject id of the token and args.id denote different numbers
SubjectDiffers == ToNumber(id) # ToNumber(act.args.id)

MsgForbidden == "You do not have permission to do that."
MsgMissingToken == "Missing an expected token."
MsgMalformed == "Invalid token."
MsgExpired == "Invalid token. You may need to log in again."
MsgNoPayloadId == "Invalid token. Expected data missing from payload."
MsgDatabase == "There is a problem connecting to the database or verifying it. Try again in a bit."
MsgHandlerThrew == "An error occurred responding to your request. Please try again later."

\* C1: the handler runs only with both permissions true; once the response is
\* written the handler has run iff both were computed true; and when the role
\* of the subject was looked up and one of the two permissions came out false
\* the response is 403 Forbidden and the handler did not run.
Thm_C1 ==
    /\ HandlerRan => (hasRolePermission /\ hasOwnershipPermission)
    /\ Done => (HandlerRan <=> (hasRolePermission /\ hasOwnershipPermission))
    /\ (Done /\ role # UndefinedRole /\ ~ (hasRolePermission /\ hasOwnershipPermission))
          => /\ written.statusCode = 403
             /\ written.body = responseForbidden(MsgForbidden)
             /\ ~ HandlerRan

Wit_C1 ==
    /\ Done
    /\ HandlerRan
    /\ role = USER
    /\ ActMeta.hasOwner = "true"
    /\ written.statusCode = 200

\* C2: for an action with hasOwner = true, a valid token whose subject has a
\* role other than ADMIN and whose subject id differs from args.id is answered
\* 403 Forbidden without running the handler, whatever the minRole.
Thm_C2 ==
    (/\ Done
     /\ ActMeta.hasOwner = "true"
     /\ req.token.kind = "valid"
     /\ role \notin {UndefinedRole, ADMIN}
     /\ SubjectDiffers)
        => (written.statusCode = 403 /\ ~ HandlerRan)

Wit_C2 ==
    /\ Done
    /\ ActMeta.hasOwner = "true"
    /\ ActMeta.minRole = USER
    /\ req.token.kind = "valid"
    /\ role = USER
    /\ hasRolePermission
    /\ SubjectDiffers
    /\ written.statusCode = 403

\* C3: for an owner-scoped action the ownership check grants permission
\* exactly when the subject id of the token and args.id denote the same
\* number, whether the payload id is a number or a numeric string.
Cex_C3 ==
    (/\ pc \in {"gate", "send", "done"}
     /\ Called("checkOwnership")
     /\ ActMeta.hasOwner = "true")
        => (hasOwnershipPermission <=> (ToNumber(id) = ToNumber(act.args.id)))

\* C4: a subject whose role is ADMIN has both permissions for every registered
\* action, whatever minRole, hasOwner and args.id; the request is never
\* answered 403 and the handler runs.
Thm_C4 ==
    /\ (role = ADMIN /\ pc \in {"gate", "send", "done"})
          => (hasRolePermission /\ hasOwnershipPermission)
    /\ (role = ADMIN /\ Done) => (written.statusCode # 403 /\ HandlerRan)

Wit_C4 ==
    /\ Done
    /\ role = ADMIN
    /\ ActMeta.hasOwner = "true"
    /\ SubjectDiffers
    /\ HandlerRan

\* what the handler of an action can leave in result: one of its responses, or
\* the 500 of the catch around the call
HandlerOutcomes(action) ==
    { HandlerResult(action, c) : c \in HandlerCodes(action) }
        \cup (IF CanThrow(action) THEN { responseInternalServerError(MsgHandlerThrew) } ELSE {})

\* C5: for a request routed to an action whose minRole is EVERYONE both
\* permissions are granted and neither the token header is read, nor a token
\* verified, nor a role looked up: nothing taken from the header enters the
\* handler's locals, and the response is the outcome of the action itself (or
\* the 500 of the database readiness checks), whatever the header is, so it
\* is never a 401 or 403 of the pipeline.
Thm_C5 ==
    (Called("route") /\ ActMeta.minRole = EVERYONE)
        => /\ ~ Called("getTokenFromRequest")
           /\ ~ Called("verifyToken")
           /\ ~ Called("getUserRole")
           /\ ~ Called("checkOwnership")
           /\ token = NoRequest.token /\ id = Undefined /\ role = UndefinedRole
           /\ Called("evaluatePermissions") => (hasRolePermission /\ hasOwnershipPermission)
           /\ Done => /\ HandlerRan <=> Called("evaluatePermissions")
                      /\ written.body \in
                            HandlerOutcomes(act.action)
                                \cup { responseInternalServerError(MsgDatabase) }
                      /\ written.body.response \notin
                            {MsgForbidden, MsgMissingToken, MsgMalformed, MsgExpired, MsgNoPayloadId}

Wit_C5 ==
    /\ Done
    /\ act.action = "getVenue"
    /\ req.token.kind = "expired"
    /\ HandlerRan
    /\ written.statusCode = 200

\* C6: a request that reaches the permission evaluation of a restricted
\* action without the x-access-token header is answered 401 Unauthorised with
\* "Missing an expected token."; the handler does not run, no token is
\* verified and no role is looked up; a malformed or an expired token never
\* gets that message.
Thm_C6 ==
    (Done /\ Restricted)
        => /\ req.token.kind = "absent"
                => /\ written.statusCode = 401
                   /\ written.body = responseUnauthorised(MsgMissingToken)
                   /\ ~ HandlerRan
                   /\ ~ Called("verifyToken")
                   /\ ~ Called("getUserRole")
           /\ req.token.kind \in {"malformed", "expired"}
                => written.body.response # MsgMissingToken

Wit_C6 ==
    /\ Done
    /\ Restricted
    /\ req.token.kind = "absent"
    /\ act.action = "getUser"
    /\ written.statusCode = 401

\* C7: when a token is present on a restricted action, the response is 401
\* iff verification rejected the token as malformed ("Invalid token."), as
\* expired ("Invalid token. You may need to log in again.") or verified a
\* payload whose id is missing or not id-format ("Invalid token. Expected
\* data missing from payload."); each of the three messages belongs to one
\* cause only, and any other failure of verification yields 500.
Thm_C7 ==
    (Done /\ Restricted /\ req.token.kind \notin {"absent", "empty"})
        => LET kind == req.token.kind
               badId == kind = "valid" /\ ~ isIdFormat(req.token.payloadId)
               code == written.statusCode
               msg == written.body.response
           IN /\ code = 401 <=> (kind \in {"malformed", "expired"} \/ badId)
              /\ kind = "malformed" <=> (code = 401 /\ msg = MsgMalformed)
              /\ kind = "expired" <=> (code = 401 /\ msg = MsgExpired)
              /\ badId <=> (code = 401 /\ msg = MsgNoPayloadId)
              /\ kind = "notbefore" => code = 500

Wit_C7 ==
    /\ Done
    /\ Restricted
    /\ req.token.kind = "expired"
    /\ written.statusCode = 401
    /\ written.body.response = MsgExpired

\* the pairs (R1, R2) of roles with R1 = ADMIN or R1 <= R2, written out
CoveringPairs ==
    { << ADMIN, ADMIN >>, << ADMIN, USER >>, << ADMIN, EVERYONE >>,
      << USER, USER >>, << USER, EVERYONE >>, << EVERYONE, EVERYONE >> }

\* C8: Covers(R1, R2) is true exactly for the pairs of roles with R1 = ADMIN
\* or R1 <= R2, and the role permission the role check computes for a request
\* is that of the pair (role of the subject, minRole of the action).
Thm_C8 ==
    /\ \A r1 \in Role : \A r2 \in Role : Covers(r1, r2) <=> (<< r1, r2 >> \in CoveringPairs)
    /\ role # UndefinedRole
          => (hasRolePermission <=> (<< role, ActMeta.minRole >> \in CoveringPairs))

Wit_C8 ==
    /\ Done
    /\ role = USER
    /\ ActMeta.minRole = ADMIN
    /\ ~ hasRolePermission
    /\ written.statusCode = 403

\* C9: when the role lookup for the subject id of a verified token finds no
\* row, the request ends in 500 Internal Server Error and the handler does
\* not run.
Thm_C9 ==
    (Done /\ Called("getUserRole") /\ parseId(id) \notin UserIds)
        => /\ written.statusCode = 500
           /\ written.body.responseStatus = "Internal Server Error"
           /\ ~ HandlerRan

Wit_C9 ==
    /\ Done
    /\ Called("getUserRole")
    /\ id = Num(MaxUserId + 1)
    /\ written.statusCode = 500

\* C10: a request routed to an action that carries no minRole / hasOwner
\* metadata ends in 500 Internal Server Error without running the handler,
\* whoever the caller is.
Thm_C10 ==
    (Done /\ Called("route") /\ ActMeta = NoMeta)
        => (written.statusCode = 500 /\ ~ HandlerRan)

Wit_C10 ==
    /\ Done
    /\ Called("evaluatePermissions")
    /\ ActMeta = NoMeta
    /\ req.token = Header("valid", Num(1))
    /\ written.statusCode = 500

\* C11: registration is checked at startup: when registering an action
\* failed, or an action is left without minRole and hasOwner, the process
\* does not start serving and no request is accepted.
Cex_C11 ==
    (\E a \in Actions : meta[a] = NoMeta) => req = NoRequest

MsgPostData == "There was a problem with the post data received in the request."
MsgMisconfigured == "There is a misconfiguration problem on the server. Try again in a bit."
MsgTokenAccess == "Something went wrong accessing an expected token."
MsgTokenInfo == "Error retrieving token information."
MsgRole == "Error checking role permissions."
MsgOwnershipVerify == "Cannot verify ownership permissions."
MsgOwnershipCheck == "Error checking ownership permissions."

\* the steps of the handler in the order of its source text
PipelineOrder ==
    << "getPostData", "route", "dbChecks", "evaluatePermissions", "getTokenFromRequest",
       "verifyToken", "getUserRole", "checkOwnership", "handler" >>

StepPosition(step) == CHOOSE k \in 1..Len(PipelineOrder) : PipelineOrder[k] = step

\* the responses the handler assigns to result outside the call of the
\* action, each with the step whose failure (or refusal) assigns it
PipelineFailures ==
    { << responseBadRequest(MsgPostData), "getPostData" >>,
      << responseInternalServerError(MsgDatabase), "dbChecks" >>,
      << responseInternalServerError(MsgMisconfigured), "evaluatePermissions" >>,
      << responseUnauthorised(MsgMissingToken), "getTokenFromRequest" >>,
      << responseInternalServerError(MsgTokenAccess), "getTokenFromRequest" >>,
      << responseUnauthorised(MsgNoPayloadId), "verifyToken" >>,
      << responseUnauthorised(MsgMalformed), "verifyToken" >>,
      << responseUnauthorised(MsgExpired), "verifyToken" >>,
      << responseInternalServerError(MsgTokenInfo), "verifyToken" >>,
      << responseInternalServerError(MsgRole), "getUserRole" >>,
      << responseInternalServerError(MsgOwnershipVerify), "checkOwnership" >>,
      << responseInternalServerError(MsgOwnershipCheck), "checkOwnership" >>,
      << responseForbidden(MsgForbidden), "checkOwnership" >>,
      << responseInternalServerError(MsgHandlerThrew), "handler" >> }

\* the terminal outcomes of a request
Outcome(kind) ==
    CASE kind = "BadRequest" ->
            /\ written.body = responseBadRequest(MsgPostData)
            /\ ~ Called("route")
      [] kind = "InternalError" ->
            /\ written.statusCode = 500
            /\ \E f \in PipelineFailures : f[1] = written.body
      [] kind = "Unauthorized" -> written.statusCode = 401 /\ ~ HandlerRan
      [] kind = "Forbidden" -> written.statusCode = 403 /\ ~ HandlerRan
      [] kind = "HandlerResult" ->
            /\ HandlerRan
            /\ written.body \in { HandlerResult(act.action, c) : c \in HandlerCodes(act.action) }

Outcomes == {"InternalError", "Unauthorized", "Forbidden", "HandlerResult"}

HandlerStep ==
    \/ GetPostData \/ RouteRequest \/ DbChecks \/ MetadataCheck \/ GetToken \/ GetId
    \/ CheckRole \/ CheckOwnership \/ Gate \/ Send

\* C13: every request handed to the listener gets a response: as long as no
\* response has been written for it, a step of the handler is left to run
\* (also for a POST whose JSON body does not parse).
Cex_C13 ==
    (req # NoRequest /\ written = NothingWritten) => ENABLED HandlerStep

\* a path segment that is the decimal text of a number
IsDecimal(seg) ==
    /\ seg.t = "string"
    /\ seg.s # << >>
    /\ \A k \in 1..Len(seg.s) : seg.s[k] \in Digits

\* the actions route() returns with an id taken from the second path segment
ItemActions ==
    {"getToken", "getVenue", "getUser", "getUserFavourites", "getUserRole",
     "getUserAccountStatus", "activateUser", "deactivateUser", "addUserFavourite",
     "removeUserFavourite"}

\* the metadata the permission table of api.js gives responseNotFound
NotFoundMeta == [minRole |-> EVERYONE, hasOwner |-> "false"]

\* C14: route() returns an action for every method and path; a second (or
\* fourth) segment that is not id-format never selects an item-level action
\* but falls through to the collection-level route or to responseNotFound; a
\* method other than GET, POST, DELETE resolves to responseNotFound; and
\* responseNotFound, carrying its registered metadata, runs without database
\* check, token, role or ownership check and is answered 404 "Not Found".
Thm_C14 ==
    Called("route") =>
        LET s1 == Seg(req.path, 1)
            s2 == Seg(req.path, 2)
            s3 == Seg(req.path, 3)
        IN /\ act.action \in Actions
           /\ req.method \notin {"GET", "POST", "DELETE"} => act.action = "responseNotFound"
           /\ ~ IsDecimal(s1) => act.action \notin ItemActions
           /\ (/\ req.method \in {"POST", "DELETE"}
               /\ ~ IsDecimal(s1)
               /\ act.action \notin {"loginUser", "registerUser"})
                 => act.action = "responseNotFound"
           /\ (/\ req.method \in {"POST", "DELETE"}
               /\ s2 = StrV(W("favourites"))
               /\ ~ IsDecimal(s3))
                 => act.action = "responseNotFound"
           /\ (act.action = "responseNotFound" /\ ActMeta = NotFoundMeta)
                 => /\ ~ Called("dbChecks")
                    /\ ~ Called("getTokenFromRequest")
                    /\ ~ Called("getUserRole")
                    /\ ~ Called("checkOwnership")
                    /\ Done => /\ HandlerRan
                               /\ written.statusCode = 404
                               /\ written.body.responseCode = 404
                               /\ written.body.responseStatus = "Not Found"

Wit_C14 ==
    /\ Done
    /\ req.method = "POST"
    /\ req.path = << W("users"), W("x") >>
    /\ req.token.kind = "absent"
    /\ act.action = "responseNotFound"
    /\ written.statusCode = 404

\* the actions behind the development-only routes
DevActions == {"getToken", "verifyToken", "getHash", "resetTestDB", "runAdminTests"}

\* the request has the method and path shape of a development-only route
DevRouteRequest ==
    /\ req.method = "GET"
    /\ \/ Seg(req.path, 0) = StrV(W("gettoken")) /\ IsDecimal(Seg(req.path, 1))
       \/ Seg(req.path, 0) \in {StrV(W("verifytoken")), StrV(W("gethash"))}
            /\ Seg(req.path, 1) # Undefined
       \/ Seg(req.path, 0) = StrV(W("resettestdb"))
       \/ Seg(req.path, 0) = StrV(W("tests")) /\ Seg(req.path, 1) = StrV(W("admin"))

\* C15: the actions of the routes gettoken/:id, verifytoken/:token,
\* gethash/:value, resettestdb and tests/admin run only when NODE_ENV is
\* 'development' and the request carries a valid token whose subject has role
\* ADMIN, and then they do run; with any other NODE_ENV these routes resolve
\* to responseNotFound and are answered 404 for every caller, admin included.
Thm_C15 ==
    /\ Called("route") => (act.action \in DevActions <=> (nodeEnv = "development" /\ DevRouteRequest))
    /\ (HandlerRan /\ act.action \in DevActions)
          => /\ nodeEnv = "development"
             /\ req.token.kind = "valid"
             /\ role = ADMIN
             /\ getUserRole(req.token.payloadId) = << [id |-> ADMIN] >>
    /\ (Done /\ act.action \in DevActions /\ role = ADMIN) => HandlerRan
    /\ (Called("route") /\ DevRouteRequest /\ nodeEnv # "development")
          => /\ act.action = "responseNotFound"
             /\ ~ Called("getTokenFromRequest")
             /\ (Done /\ ActMeta = NotFoundMeta) => (written.statusCode = 404 /\ HandlerRan)

Wit_C15 ==
    /\ Done
    /\ nodeEnv # "development"
    /\ req.path = << W("tests"), W("admin") >>
    /\ req.token = Header("valid", Num(1))
    /\ written.statusCode = 404
    /\ written.body.responseStatus = "Not Found"

\* the rows of the endpoint tables of the README, by method and path shape:
\* the action and args documented for a request, NoMatch when no row applies.
\* pd is the parsed body of the request
ReadmeRow(method, path, pd) ==
    LET n == Len(path)
        s0 == Seg(path, 0)
        s1 == Seg(path, 1)
        s2 == Seg(path, 2)
        s3 == Seg(path, 3)
        underUsers == s0 = StrV(W("users"))
    IN CASE method = "GET" /\ n = 2 /\ s0 = StrV(W("venues")) /\ IsDecimal(s1) ->
                Act("getVenue", IdArgs(s1))
         [] method = "GET" /\ n = 1 /\ s0 = StrV(W("venues")) -> Act("getVenues", QueryArgs)
         [] method = "GET" /\ n = 3 /\ underUsers /\ IsDecimal(s1) /\ s2 = StrV(W("favourites")) ->
                Act("getUserFavourites", IdArgs(s1))
         [] method = "GET" /\ n = 3 /\ underUsers /\ IsDecimal(s1) /\ s2 = StrV(W("role")) ->
                Act("getUserRole", IdArgs(s1))
         [] method = "GET" /\ n = 3 /\ underUsers /\ IsDecimal(s1) /\ s2 = StrV(W("status")) ->
                Act("getUserAccountStatus", IdArgs(s1))
         [] method = "GET" /\ n = 2 /\ underUsers /\ IsDecimal(s1) -> Act("getUser", IdArgs(s1))
         [] method = "GET" /\ n = 1 /\ underUsers -> Act("getUsers", QueryArgs)
         [] method = "POST" /\ n = 2 /\ underUsers /\ s1 = StrV(W("login")) -> Act("loginUser", pd)
         [] method = "POST" /\ n = 2 /\ underUsers /\ s1 = StrV(W("register")) ->
                Act("registerUser", pd)
         [] method = "POST" /\ n = 4 /\ underUsers /\ IsDecimal(s1) /\ s2 = StrV(W("favourites"))
                /\ IsDecimal(s3) ->
                Act("addUserFavourite", IdVenueArgs(s1, s3))
         [] method = "POST" /\ n = 2 /\ underUsers /\ IsDecimal(s1) -> Act("activateUser", IdArgs(s1))
         [] method = "DELETE" /\ n = 4 /\ underUsers /\ IsDecimal(s1) /\ s2 = StrV(W("favourites"))
                /\ IsDecimal(s3) ->
                Act("removeUserFavourite", IdVenueArgs(s1, s3))
         [] method = "DELETE" /\ n = 2 /\ underUsers /\ IsDecimal(s1) ->
                Act("deactivateUser", IdArgs(s1))
         [] OTHER -> NoMatch

\* C16: for every row of the README endpoint table route() returns the
\* documented action for the method and path shape, with args.id (and
\* venueId) the path segments, the parsed body for users/login and
\* users/register, and the query map for GET venues and GET users.
Thm_C16 ==
    (Called("route") /\ ReadmeRow(req.method, req.path, postData) # NoMatch)
        => /\ act = ReadmeRow(req.method, req.path, postData)
           /\ act.action \in ItemActions
                => (act.args.hasId /\ act.args.id = Seg(req.path, 1) /\ act.args.from = "path")
           /\ act.action \in {"addUserFavourite", "removeUserFavourite"}
                => act.args.venueId = Seg(req.path, 3)
           /\ act.action \in {"loginUser", "registerUser"} => act.args = postData
           /\ act.action \in {"getVenues", "getUsers"} => act.args.from = "query"

Wit_C16 ==
    /\ Called("route")
    /\ req.method = "GET"
    /\ req.path = << W("users"), ToDecString(MaxUserId), W("role") >>
    /\ act = Act("getUserRole", IdArgs(StrV(ToDecString(MaxUserId))))

\* C17: a POST whose content type is neither application/json nor
\* application/x-www-form-urlencoded is not refused at the transport layer:
\* its body is treated as absent, the request is routed and authorized, and
\* it is not answered 400 for its content type.
Cex_C17 ==
    (Done /\ req.method = "POST" /\ req.ctype \notin AcceptedContentTypes)
        => /\ Called("route")
           /\ postData = NoArgs
           /\ written.body # responseBadRequest(MsgPostData)

\* C18: every response body written is the envelope formatResult builds for
\* its responseCode: the three fields responseCode, responseStatus, response
\* with responseStatus the label of the code, and the status line equal to
\* responseCode.
Cex_C18 ==
    Done => /\ written.body = formatResult(written.body.responseCode, written.body.response)
            /\ written.statusCode = written.body.responseCode

MsgRouting == "An error occurred routing the request."

\* the payload of the 500 the handler assigns when a step throws; code is
\* err.code of the error caught
StepMessage(step, code) ==
    CASE step = "route" -> MsgRouting
      [] step = "dbChecks" -> MsgDatabase
      [] step = "evaluatePermissions" -> MsgMisconfigured
      [] step = "getTokenFromRequest" -> MsgTokenAccess
      [] step = "verifyToken" -> MsgTokenInfo
      [] step = "getUserRole" -> MsgRole
      [] step = "checkOwnership" ->
            IF code \in {"KE110", "KE111"} THEN MsgOwnershipVerify ELSE MsgOwnershipCheck
      [] step = "handler" -> MsgHandlerThrew
      [] OTHER -> "undefined"

\* C19: a 500 written after a step of the handler threw carries the constant
\* message of that step, whatever the text of the error caught: the body is
\* a function of the failing step (and, for the ownership check, of the error
\* code, though the ownership check never throws for a routed request) and
\* never contains the text of the error; a 500 written when nothing was
\* thrown is the result the action returned.
Thm_C19 ==
    (Done /\ written.statusCode = 500)
        => IF err # NoError
           THEN /\ written.body =
                      responseInternalServerError(StepMessage(trace[Len(trace)], err.code))
                /\ written.body.response # err.message
                /\ written.body.response \notin DalErrorTexts \cup VerifyErrorTexts
                /\ trace[Len(trace)] # "checkOwnership"
           ELSE /\ HandlerRan
                /\ written.body = HandlerResult(act.action, 500)

Wit_C19 ==
    /\ Done
    /\ written.statusCode = 500
    /\ trace[Len(trace)] = "getUserRole"
    /\ err = PlainError("connect ECONNREFUSED 127.0.0.1:3306")
    /\ written.body = responseInternalServerError(MsgRole)

\* C20: -act <actionName> <jsonArgs> calls the export of api.js of that name
\* whenever the name is one and the arguments parse, whatever the minRole and
\* hasOwner of the action (also when none was registered) and whatever
\* NODE_ENV is; no request is routed, no token read, no role looked up and no
\* ownership checked for it; a name that api.js does not export calls nothing.
Thm_C20 ==
    (pc = "initialised" /\ cli.command = "act")
        => /\ cli.called <=> (cli.action \in ApiExports /\ cli.args # "unparsable")
           /\ cli.called =>
                /\ trace = << >>
                /\ act = NoMatch
                /\ token = NoRequest.token
                /\ id = Undefined
                /\ role = UndefinedRole
                /\ ~ hasRolePermission
                /\ ~ hasOwnershipPermission

Wit_C20 ==
    /\ pc = "initialised"
    /\ nodeEnv = "production"
    /\ cli.called
    /\ cli.action = "deactivateUser"
    /\ cli.args = "object"
    /\ meta["deactivateUser"] = [minRole |-> ADMIN, hasOwner |-> "true"]

\* ------------------------------------------------------------------------
\* Tokens over time: api.loginUser, api.activateUser and api.deactivateUser
\* called between requests that present the tokens the logins returned
\* ------------------------------------------------------------------------

\* the clock runs from 0 to MaxTime seconds
MaxTime == 2

\* the configured expiry is at most MaxTTL seconds
MaxTTL == 2

\* the clients keep at most MaxTokens tokens
MaxTokens == 2

\* true / false as a response
Bool(b) == [t |-> "boolean", n |-> IF b THEN 1 ELSE 0, s |-> << >>]

\* the values of KEBAPI_AUTH_TOKEN_EXPIRY_MS: the number the configuration
\* falls back to (read by jsonwebtoken as seconds), or the text of the
\* environment variable (read as milliseconds)
ExpiryConfigs ==
    { Num(n) : n \in 1..MaxTTL } \cup { StrV(<< "0" >>), StrV(<< "1", "5", "0", "0" >>) }

\* dal.parseString and dal.parseEmail: str && String(str).trim() || ""
parseString(value) == IF Falsy(value) THEN << >> ELSE DropWSEnd(DropWS(value.s))

\* dal.getUserByUserName and dal.getUserByEmail: the ids of the rows selected
getUserByUserName(userName) == { i \in DOMAIN users : users[i].username = parseString(userName) }
getUserByEmail(email) == { i \in DOMAIN users : users[i].email = parseString(email) }

\* api.loginUser
loginUser(args) ==
    IF (Falsy(args.username) /\ Falsy(args.email)) \/ Falsy(args.password)
    THEN formatResult(responseCodes.BadRequest, Undefined)
    ELSE LET rows == IF ~ Falsy(args.username)
                     THEN getUserByUserName(args.username)
                     ELSE getUserByEmail(args.email)
         IN IF rows = {}
            THEN formatResult(responseCodes.NotFound, StrV(<< "Can't find that user" >>))
            ELSE LET user == CHOOSE i \in rows : TRUE
                 IN IF ~ bcryptCompare(args.password.s, users[user].password_hash)
                    THEN formatResult(responseCodes.Unauthorised,
                                      StrV(<< "Those user credentials weren't right" >>))
                    ELSE formatResult(responseCodes.OK, getToken(Num(user)))

\* dal.activateUser / dal.deactivateUser: UPDATE ... WHERE id = parseId(id);
\* updateOK is true when a row matched
updateOK(idv) == parseId(idv) \in DOMAIN users
setAccountStatus(idv, statusId) ==
    IF updateOK(idv)
    THEN [users EXCEPT ![parseId(idv)].account_status_id = statusId]
    ELSE users

\* api.activateUser / api.deactivateUser
statusResult(idv) ==
    formatResult(IF updateOK(idv) THEN responseCodes.OK ELSE responseCodes.InternalServerError,
                 Bool(updateOK(idv)))

\* the arguments of the logins
LoginNames == { Undefined, StrV(<< "aard" >>), StrV(<< "Babs" >>), StrV(<< "nobody" >>) }
LoginEmails == { Undefined, StrV(<< "babs@matthews.co.uk" >>), StrV(<< "nobody@example.com" >>) }
LoginPasswords == { Undefined, StrV(<< "bob1" >>), StrV(<< "lucy1" >>) }
LoginArgs == [username : LoginNames, email : LoginEmails, password : LoginPasswords]

\* the ids activateUser / deactivateUser are called with: path segments
StatusIds == { StrV(ToDecString(i)) : i \in 1..(MaxUserId + 1) }

\* api.js initialise and tests.js initialise have attached every property
Registered ==
    Register(Register([a \in Actions |-> NoMeta], ApiPermissions, Len(ApiPermissions)),
             TestsPermissions, Len(TestsPermissions))

\* the server listens, no request is being handled
Listening ==
    /\ nodeEnv = "development"
    /\ meta = Registered
    /\ pc = "listening"
    /\ req = NoRequest
    /\ postData = NoArgs
    /\ act = NoMatch
    /\ result = NotAResponse("{}")
    /\ token = NoRequest.token
    /\ id = Undefined
    /\ role = UndefinedRole
    /\ hasRolePermission = FALSE
    /\ hasOwnershipPermission = FALSE
    /\ trace = << >>
    /\ written = NothingWritten
    /\ cli = NoCommand
    /\ err = NoError

TokenInit ==
    /\ Listening
    /\ now = 0
    /\ expiry \in ExpiryConfigs
    /\ users = TestUsers
    /\ issued = {}
    /\ call = NoCall
    /\ favourites = TestFavourites
    /\ autoInc = TestAutoInc
    /\ pool = createPool(DefaultPoolLimit)
    /\ procs = [p \in Procs |-> NoProc]

\* a second passes while no request is being handled (the clock is read
\* once per request, by jwt.verify)
Tick ==
    /\ pc = "listening"
    /\ now < MaxTime
    /\ now' = now + 1
    /\ UNCHANGED << handlerVars, favourites, autoInc, poolVars, expiry, users, issued, call >>

LoginUser ==
    /\ pc = "listening"
    /\ \E args \in LoginArgs :
        LET r == loginUser(args)
        IN /\ call' = [fn |-> "loginUser", args |-> args, result |-> r]
           /\ issued' = IF r.responseCode = responseCodes.OK
                        THEN issued \cup {r.response}
                        ELSE issued
    /\ Cardinality(issued') <= MaxTokens
    /\ UNCHANGED << handlerVars, favourites, autoInc, poolVars, now, expiry, users >>

DeactivateUser ==
    /\ pc = "listening"
    /\ \E idv \in StatusIds :
        /\ users' = setAccountStatus(idv, INACTIVE)
        /\ call' = [fn |-> "deactivateUser", args |-> idv, result |-> statusResult(idv)]
    /\ UNCHANGED << handlerVars, favourites, autoInc, poolVars, now, expiry, issued >>

ActivateUser ==
    /\ pc = "listening"
    /\ \E idv \in StatusIds :
        /\ users' = setAccountStatus(idv, ACTIVE)
        /\ call' = [fn |-> "activateUser", args |-> idv, result |-> statusResult(idv)]
    /\ UNCHANGED << handlerVars, favourites, autoInc, poolVars, now, expiry, issued >>

\* the requests that present a token a login returned
TokenPaths ==
    { << W("venues") >>, << W("users") >> } \cup { << W("users"), s >> : s \in IdSegs }

TokenReceive ==
    /\ pc = "listening"
    /\ \E p \in TokenPaths, h \in issued : req' = Request("GET", p, "undefined", "none", h)
    /\ pc' = "getPostData"
    /\ call' = NoCall
    /\ UNCHANGED << cli, nodeEnv, meta, postData, act, result, err, token, id, role,
                    hasRolePermission, hasOwnershipPermission, trace, written >>
    /\ UNCHANGED << now, expiry, users, issued, favourites, autoInc, poolVars >>

TokenNext ==
    \/ Tick
    \/ LoginUser
    \/ DeactivateUser
    \/ ActivateUser
    \/ TokenReceive
    \/ GetPostData
    \/ RouteRequest
    \/ DbChecks
    \/ MetadataCheck
    \/ GetToken
    \/ GetId
    \/ CheckRole
    \/ CheckOwnership
    \/ Gate
    \/ Send
    \/ Return

TokenSpec == TokenInit /\ [][TokenNext]_vars

\* the configured expiry in whole seconds, as a token carries it
TTL == IF expiry.t = "number" THEN expiry.n ELSE DecValue(expiry.s) \div 1000

PresentsLiveToken == req.token.kind = "signed" /\ now < req.token.exp

\* the user the presented token was issued for
Subject == req.token.payloadId.n

\* the decision the handler takes for the subject of the presented token
\* from the role the subject was given with its row and from the path alone
DecisionAtIssue ==
    /\ Covers(UserRoleId(Subject), ActMeta.minRole)
    /\ \/ AlwaysOwns(UserRoleId(Subject))
       \/ checkOwnershipGrantsPermissionForAction(req.token.payloadId, act).hasPermission

\* C22: a token is not revocable.  Whatever was called since it was issued
\* (deactivateUser or activateUser on any user, further logins, which issue
\* other tokens), a request that presents it within its TTL is never
\* answered 401, the role found for its subject is the role of the
\* subject's row, and the handler runs exactly when that role and the path
\* permit it (403 otherwise); and loginUser with the right credentials
\* returns 200 whatever the account status of the user is.
Thm_C22 ==
    /\ PresentsLiveToken =>
        /\ result.responseCode # responseCodes.Unauthorised
        /\ written.statusCode # responseCodes.Unauthorised
        /\ (Called("getUserRole") /\ err.message \notin DalErrorTexts) =>
            /\ role = UserRoleId(Subject)
            /\ hasRolePermission = Covers(UserRoleId(Subject), ActMeta.minRole)
            /\ Done => /\ HandlerRan <=> DecisionAtIssue
                       /\ ~ DecisionAtIssue => written.statusCode = responseCodes.Forbidden
    /\ (/\ call.fn = "loginUser"
        /\ call.args.username = StrV(<< TestUserNames[1] >>)
        /\ call.args.password = StrV(<< TestUserPasswords[1] >>)) =>
            /\ call.result.responseCode = responseCodes.OK
            /\ call.result.response.payloadId = Num(1)

\* the subject was deactivated and logged in again after the token was
\* issued, and the request that presents the token is executed
Wit_C22 ==
    /\ Done
    /\ PresentsLiveToken
    /\ users[Subject].account_status_id = INACTIVE
    /\ \E t \in issued : t.payloadId = req.token.payloadId /\ t.iat > req.token.iat
    /\ ActMeta.minRole # EVERYONE
    /\ HandlerRan
    /\ written.statusCode = responseCodes.OK

\* the last direct call was api.loginUser
LoginCalled == call.fn = "loginUser"

\* the call gave a password and at least one of username and email
LoginComplete ==
    /\ ~ Falsy(call.args.password)
    /\ ~ Falsy(call.args.username) \/ ~ Falsy(call.args.email)

\* the users the identifier of the call selects: by username when one is
\* given, by email otherwise
LoginMatches ==
    { i \in DOMAIN users :
        IF ~ Falsy(call.args.username)
        THEN users[i].username = call.args.username.s
        ELSE users[i].email = call.args.email.s }

\* the password of the call hashes to the stored hash of user i
LoginPasswordMatches(i) == users[i].password_hash = bcryptHash(call.args.password.s)

\* the response of the call is a token
ReturnsToken == call.result.response \in issued

\* C25: loginUser returns 200 exactly when the call is complete, a user
\* matches the username (the email when no username is given) and the
\* password matches that user's hash, and the response is then a token
\* issued by this call for that user's id; it returns 400 when the password
\* or both identifiers are missing, 404 "Can't find that user" when no user
\* matches, 401 when the password does not match; in these three cases the
\* response is not a token.
Thm_C25 ==
    LoginCalled =>
        /\ (call.result.responseCode = responseCodes.OK) <=>
                (LoginComplete /\ \E i \in LoginMatches : LoginPasswordMatches(i))
        /\ call.result.responseCode = responseCodes.OK =>
                /\ ReturnsToken
                /\ call.result.response.kind = "signed"
                /\ call.result.response.iat <= now
                /\ \E i \in LoginMatches :
                        LoginPasswordMatches(i) /\ call.result.response.payloadId = Num(i)
        /\ ~ LoginComplete => call.result = formatResult(responseCodes.BadRequest, Undefined)
        /\ (LoginComplete /\ LoginMatches = {}) =>
                call.result = formatResult(responseCodes.NotFound, StrV(<< "Can't find that user" >>))
        /\ (LoginComplete /\ LoginMatches # {} /\ \A i \in LoginMatches : ~ LoginPasswordMatches(i)) =>
                call.result.responseCode = responseCodes.Unauthorised
        /\ call.result.responseCode # responseCodes.OK => ~ ReturnsToken

\* a login by email, without a username, returned a token for the user of that email
Wit_C25 ==
    /\ LoginCalled
    /\ Falsy(call.args.username)
    /\ call.args.email = StrV(<< TestUserEmails[2] >>)
    /\ call.result.responseCode = responseCodes.OK
    /\ call.result.response.payloadId = Num(2)

\* ------------------------------------------------------------------------
\* Favourites: api.addUserFavourite, api.removeUserFavourite and
\* api.getUserFavourites called one after another, as tests.js calls them.
\* Every pool.query of such a run is served by the one connection of the
\* pool, so SHOW WARNINGS reads the warnings of the statement before it.
\* ------------------------------------------------------------------------

\* the favourites table hands out row ids below MaxRowId
MaxRowId == 10

\* DbErr.ER_DUP_ENTRY, and the code of the warning for a missing parent row
ER_DUP_ENTRY == 1062
ER_NO_REFERENCED_ROW_2 == 1452

\* INSERT IGNORE INTO user_favourite_venues (user_id, venue_id): the result
\* packet and the first row of SHOW WARNINGS.  A duplicate of the unique
\* (user_id, venue_id) and a missing user or venue are ignored with a warning
insertIgnoreFavourite(userId, venueId) ==
    CASE Favourite(userId, venueId) \in favourites ->
            [insertId |-> 0, warningCount |-> 1, warning |-> ER_DUP_ENTRY, rows |-> favourites]
      [] userId \notin DOMAIN users \/ venueId \notin VenueIds ->
            [insertId |-> 0, warningCount |-> 1, warning |-> ER_NO_REFERENCED_ROW_2,
             rows |-> favourites]
      [] OTHER ->
            [insertId |-> autoInc.favourites, warningCount |-> 0, warning |-> 0,
             rows |-> favourites \cup {Favourite(userId, venueId)}]

\* an ignored duplicate left undetected: insertId stays undefined
dalAddUserFavouriteNoWarnings(idv, venueId) ==
    LET r == insertIgnoreFavourite(idv.n, venueId.n)
    IN [insertId |-> IF r.insertId > 0 THEN Num(r.insertId) ELSE Undefined, rows |-> r.rows]

\* dal.addUserFavourite: the new row id, 0 for an ignored duplicate, undefined otherwise
dalAddUserFavourite(idv, venueId) ==
    LET r == insertIgnoreFavourite(idv.n, venueId.n)
    IN [insertId |->
            IF r.insertId > 0
            THEN Num(r.insertId)
            ELSE IF r.insertId = 0 /\ r.warningCount > 0 /\ r.warning = ER_DUP_ENTRY
                 THEN Num(r.insertId)
                 ELSE Undefined,
        rows |-> r.rows]

\* api.addUserFavourite: result >= 0 is false for undefined
addUserFavourite(idv, venueId) ==
    LET r == dalAddUserFavourite(idv, venueId)
    IN formatResult(IF r.insertId.t = "number" /\ r.insertId.n >= 0
                    THEN responseCodes.OK
                    ELSE responseCodes.BadRequest,
                    r.insertId)

\* dal.removeUserFavourite: DELETE ... WHERE user_id = ? AND venue_id = ?
dalRemoveUserFavourite(idv, venueId) ==
    [removed |-> Favourite(idv.n, venueId.n) \in favourites,
     rows |-> favourites \ {Favourite(idv.n, venueId.n)}]

\* api.removeUserFavourite
removeUserFavourite(idv, venueId) ==
    LET r == dalRemoveUserFavourite(idv, venueId)
    IN formatResult(IF r.removed THEN responseCodes.OK ELSE responseCodes.BadRequest,
                    Bool(r.removed))

\* dal.getUserFavourites: the venues joined to the favourites of the user
dalGetUserFavourites(idv) ==
    { v \in VenueIds : Favourite(parseId(idv), v) \in favourites }

\* api.getUserFavourites: 404 for an empty list
getUserFavourites(idv) ==
    formatResult(IF dalGetUserFavourites(idv) = {} THEN responseCodes.NotFound ELSE responseCodes.OK,
                 [t |-> "rows", n |-> 0, s |-> dalGetUserFavourites(idv)])

\* the ids the calls are made with: the users and the venues, and one id past each
FavouriteUserIds == { Num(i) : i \in 1..(MaxUserId + 1) }
FavouriteVenueIds == { Num(i) : i \in 1..(MaxVenueId + 1) }

FavouritesInit ==
    /\ Listening
    /\ now = 0
    /\ expiry = DefaultExpiry
    /\ users = TestUsers
    /\ issued = {}
    /\ call = NoCall
    /\ favourites = TestFavourites
    /\ autoInc = TestAutoInc
    /\ pool = createPool(DefaultPoolLimit)
    /\ procs = [p \in Procs |-> NoProc]

\* every INSERT takes the next AUTO_INCREMENT id, the ignored ones too
AddUserFavourite ==
    /\ autoInc.favourites < MaxRowId
    /\ \E idv \in FavouriteUserIds, venueId \in FavouriteVenueIds :
        /\ call' = [fn |-> "addUserFavourite", args |-> IdVenueArgs(idv, venueId),
                    result |-> addUserFavourite(idv, venueId), before |-> favourites]
        /\ favourites' = dalAddUserFavourite(idv, venueId).rows
    /\ autoInc' = [autoInc EXCEPT !.favourites = @ + 1]
    /\ UNCHANGED << handlerVars, now, expiry, users, issued, poolVars >>

RemoveUserFavourite ==
    /\ \E idv \in FavouriteUserIds, venueId \in FavouriteVenueIds :
        /\ call' = [fn |-> "removeUserFavourite", args |-> IdVenueArgs(idv, venueId),
                    result |-> removeUserFavourite(idv, venueId), before |-> favourites]
        /\ favourites' = dalRemoveUserFavourite(idv, venueId).rows
    /\ UNCHANGED << handlerVars, now, expiry, users, issued, autoInc, poolVars >>

GetUserFavourites ==
    /\ \E idv \in FavouriteUserIds :
        call' = [fn |-> "getUserFavourites", args |-> IdArgs(idv),
                 result |-> getUserFavourites(idv), before |-> favourites]
    /\ UNCHANGED << handlerVars, now, expiry, users, issued, favourites, autoInc, poolVars >>

FavouritesNext ==
    \/ AddUserFavourite
    \/ RemoveUserFavourite
    \/ GetUserFavourites

FavouritesSpec == FavouritesInit /\ [][FavouritesNext]_vars

\* the pair the last call was about, and what the list of its user shows now
CallPair == Favourite(call.args.id.n, call.args.venueId.n)
CallUserExists == call.args.id.n \in DOMAIN users
CallVenueExists == call.args.venueId.n \in VenueIds
Listed == call.args.venueId.n \in getUserFavourites(call.args.id).response.s

MaxPool == 2

\* DB_TABLES
DbTables == << "venues", "users", "user_favourite_venues", "lookup_roles",
               "lookup_user_account_status" >>

\* the codes of the MySQL conditions: a NULL for a NOT NULL column, no database selected
ER_BAD_NULL_ERROR == 1048
ER_NO_DB_ERROR == 1046

\* a connection: whether USE has been run on it, and the code of the first
\* condition of its last statement (0: none)
Conn(selected, warning) == [selected |-> selected, warning |-> warning]

\* the statements that name a table of the target database
DataStatements == {"getUserByUserName", "getUserByEmail", "addUser", "getUserRole", "getUser"}

\* pool.getConnection: conn is the connection handed over, 0 when the caller is queued
getConnection(p) ==
    IF pool.free # << >>
    THEN [pool |-> [pool EXCEPT !.free = Tail(@)], conn |-> Head(pool.free)]
    ELSE IF Len(pool.conns) < pool.limit
         THEN [pool |-> [pool EXCEPT !.conns = Append(@, Conn(FALSE, 0))],
               conn |-> Len(pool.conns) + 1]
         ELSE [pool |-> [pool EXCEPT !.queue = Append(@, p)], conn |-> 0]

\* pool.releaseConnection: to is the queued caller the connection goes to, 0 when it is freed
releaseConnection(pl, c) ==
    IF pl.queue # << >>
    THEN [pool |-> [pl EXCEPT !.queue = Tail(@)], to |-> Head(pl.queue)]
    ELSE [pool |-> [pl EXCEPT !.free = Append(@, c)], to |-> 0]

\* the column value of an argument: undefined is sent as NULL, which INSERT
\* IGNORE turns into the empty string
Column(value) == IF value.t = "undefined" THEN << >> ELSE value.s

\* INSERT IGNORE INTO users: the result packet and the codes of its warnings.
\* A NULL for a NOT NULL column and a duplicate of the unique username or
\* email are ignored with a warning
insertIgnoreUser(args) ==
    LET nulls == \E f \in {"username", "name", "surname", "email"} : args[f].t = "undefined"
        dup == \E i \in DOMAIN users :
                    \/ users[i].username = Column(args.username)
                    \/ users[i].email = Column(args.email)
        warnings == (IF nulls THEN << ER_BAD_NULL_ERROR >> ELSE << >>)
                        \o (IF dup THEN << ER_DUP_ENTRY >> ELSE << >>)
    IN [insertId |-> IF dup THEN 0 ELSE autoInc.users,
        warningCount |-> Len(warnings),
        warning |-> IF warnings = << >> THEN 0 ELSE warnings[1],
        rows |-> IF dup THEN users
                 ELSE [i \in DOMAIN users \cup {autoInc.users} |->
                        IF i \in DOMAIN users THEN users[i]
                        ELSE UserRow(Column(args.username), Column(args.email),
                                     bcryptHash(args.password.s), USER, ACTIVE)]]

\* the arguments of the registrations: a complete set, one with another
\* username and the same email, one with the username of a test user, one
\* without username, one without password, and an empty one
RegisterArgsOf(username, email, password) ==
    [username |-> username, name |-> StrV(<< "New" >>), surname |-> StrV(<< "Bie" >>),
     email |-> email, password |-> password]
RegisterArgs ==
    { RegisterArgsOf(StrV(<< "newbie" >>), StrV(<< "newbie@example.com" >>), StrV(<< "newbie1" >>)),
      RegisterArgsOf(StrV(<< "other" >>), StrV(<< "newbie@example.com" >>), StrV(<< "other1" >>)),
      RegisterArgsOf(StrV(<< TestUserNames[1] >>), StrV(<< "bob@example.com" >>), StrV(<< "bob2" >>)),
      RegisterArgsOf(Undefined, StrV(<< "newbie@example.com" >>), StrV(<< "newbie1" >>)),
      RegisterArgsOf(StrV(<< "newbie" >>), StrV(<< "newbie@example.com" >>), Undefined),
      [username |-> Undefined, name |-> Undefined, surname |-> Undefined,
       email |-> Undefined, password |-> Undefined] }

\* a request that has ended with a response
Finished(pr, res) == [pr EXCEPT !.pc = "done", !.phase = "", !.conn = 0, !.result = res]

\* a request that goes on to its next pool.query
Goes(pr, statement) == [pr EXCEPT !.pc = statement, !.phase = "call", !.conn = 0]

\* the handler catches what the action throws
ActionThrew(pr) == Finished(pr, responseInternalServerError(MsgHandlerThrew))

\* the action starts once the readiness checks have passed
StartAction(pr) ==
    IF pr.kind = "getUser"
    THEN Goes(pr, "getUserRole")
    ELSE IF \A f \in {"username", "name", "surname", "email", "password"} : Falsy(pr.args[f])
         THEN Finished(pr, formatResult(responseCodes.BadRequest, "Missing required data."))
         ELSE Goes(pr, "getUserByUserName")

\* what the request does when its statement has run on connection c without an error
Continue(pr, c) ==
    CASE pr.pc = "checkDBExists" -> Goes(pr, "setTargetDB")
      [] pr.pc = "setTargetDB" -> [Goes(pr, "checkTableExists") EXCEPT !.n = 1]
      [] pr.pc = "checkTableExists" ->
            IF pr.n < Len(DbTables)
            THEN [Goes(pr, "checkTableExists") EXCEPT !.n = pr.n + 1]
            ELSE StartAction(pr)
      [] pr.pc = "getUserByUserName" ->
            IF getUserByUserName(pr.args.username) # {}
            THEN Finished(pr, formatResult(responseCodes.BadRequest, "Username already registered."))
            ELSE Goes(pr, "getUserByEmail")
      [] pr.pc = "getUserByEmail" ->
            IF getUserByEmail(pr.args.email) # {}
            THEN Finished(pr, formatResult(responseCodes.BadRequest, "Email already registered."))
            ELSE IF pr.args.password.t = "undefined"
                 THEN ActionThrew(pr)
                 ELSE Goes(pr, "addUser")
      [] pr.pc = "addUser" ->
            LET r == insertIgnoreUser(pr.args)
            IN IF r.insertId > 0
               THEN [Finished(pr, formatResult(responseCodes.OK, "User registered."))
                        EXCEPT !.inserted = r.insertId]
               ELSE IF r.insertId = 0 /\ r.warningCount > 0
                    THEN Goes(pr, "showWarnings")
                    ELSE Finished(pr, formatResult(responseCodes.InternalServerError,
                            "Something went wrong registering the user. Please try again later."))
      [] pr.pc = "showWarnings" ->
            IF pool.conns[c].warning = ER_DUP_ENTRY
            THEN Finished(pr, formatResult(responseCodes.OK, "User already registered."))
            ELSE Finished(pr, formatResult(responseCodes.InternalServerError,
                    "Something went wrong registering the user. Please try again later."))
      [] pr.pc = "getUserRole" -> Goes(pr, "getUser")
      [] OTHER -> Finished(pr, formatResult(responseCodes.OK, "payload"))

\* what the request does when its statement failed with "No database selected"
Rejected(pr) ==
    IF pr.pc = "getUserRole"
    THEN [Finished(pr, responseInternalServerError("Error checking role permissions."))
            EXCEPT !.unselected = TRUE]
    ELSE [ActionThrew(pr) EXCEPT !.unselected = TRUE]

\* the connection after the statement: USE selects the database, and every
\* statement but SHOW WARNINGS leaves its own conditions
After(pr, c) ==
    CASE pr.pc = "setTargetDB" -> Conn(TRUE, 0)
      [] pr.pc = "showWarnings" -> pool.conns[c]
      [] pr.pc \in DataStatements /\ ~ pool.conns[c].selected -> Conn(FALSE, ER_NO_DB_ERROR)
      [] pr.pc = "addUser" -> Conn(TRUE, insertIgnoreUser(pr.args).warning)
      [] OTHER -> Conn(pool.conns[c].selected, 0)

PoolInit ==
    /\ Listening
    /\ now = 0
    /\ expiry = DefaultExpiry
    /\ users = TestUsers
    /\ issued = {}
    /\ call = NoCall
    /\ favourites = TestFavourites
    /\ autoInc = TestAutoInc
    /\ \E limit \in 1..MaxPool : pool = createPool(limit)
    /\ procs = [p \in Procs |-> NoProc]

\* a request arrives and is routed; its handler is about to call dal.checkDBExists
Arrive ==
    /\ \E p \in Procs :
        /\ procs[p].pc = "none"
        /\ \/ \E args \in RegisterArgs :
                procs' = [procs EXCEPT ![p] =
                            [Goes(NoProc, "checkDBExists") EXCEPT !.kind = "registerUser", !.args = args]]
           \/ procs' = [procs EXCEPT ![p] = [Goes(NoProc, "checkDBExists") EXCEPT !.kind = "getUser"]]
    /\ UNCHANGED << handlerVars, now, expiry, users, issued, call, favourites, autoInc, pool >>

\* pool.query asks the pool for a connection
Acquire ==
    /\ \E p \in Procs :
        /\ procs[p].phase = "call"
        /\ pool' = getConnection(p).pool
        /\ procs' = [procs EXCEPT ![p].conn = getConnection(p).conn,
                                  ![p].phase = IF getConnection(p).conn = 0 THEN "wait" ELSE "run"]
    /\ UNCHANGED << handlerVars, now, expiry, users, issued, call, favourites, autoInc >>

\* the statement of a request ends: the connection is released (to the next
\* queued caller if there is one) and the request goes on
Complete ==
    /\ \E p \in Procs :
        /\ procs[p].phase = "run"
        /\ LET pr == procs[p]
               c == pr.conn
               noDb == pr.pc \in DataStatements /\ ~ pool.conns[c].selected
               inserts == pr.pc = "addUser" /\ ~ noDb
               rel == releaseConnection([pool EXCEPT !.conns[c] = After(pr, c)], c)
               cont == IF noDb THEN Rejected(pr) ELSE Continue(pr, c)
           IN /\ pool' = rel.pool
              /\ procs' = [q \in Procs |->
                            IF q = p THEN cont
                            ELSE IF q = rel.to THEN [procs[q] EXCEPT !.conn = c, !.phase = "run"]
                            ELSE procs[q]]
              /\ users' = IF inserts THEN insertIgnoreUser(pr.args).rows ELSE users
              /\ autoInc' = IF inserts THEN [autoInc EXCEPT !.users = @ + 1] ELSE autoInc
    /\ UNCHANGED << handlerVars, now, expiry, issued, call, favourites >>

PoolNext ==
    \/ Arrive
    \/ Acquire
    \/ Complete

PoolSpec == PoolInit /\ [][PoolNext]_vars

\* the registration of request p lacks one of the five fields
LacksField(p) ==
    /\ procs[p].kind = "registerUser"
    /\ \E f \in {"username", "name", "surname", "email", "password"} :
            procs[p].args[f].t = "undefined"

\* request p has been answered
Answered(p) == procs[p].pc = "done"

\* C24: a registerUser call in which any of username, name, surname, email
\* and password is missing is answered 400 Bad Request and adds no user.
Cex_C24 ==
    \A p \in Procs :
        (LacksField(p) /\ Answered(p)) =>
            /\ procs[p].result.responseCode = responseCodes.BadRequest
            /\ procs[p].inserted = 0

\* C28: every statement on a table of the target database that a request
\* runs after its readiness checks runs on a connection on which USE has
\* selected the database, for every interleaving and every pool size.
Cex_C28 == \A p \in Procs : ~ procs[p].unselected

\* requests p and q are registrations with all five fields that share the
\* username or the email
ShareIdentity(p, q) ==
    /\ p # q
    /\ procs[p].kind = "registerUser" /\ procs[q].kind = "registerUser"
    /\ ~ LacksField(p) /\ ~ LacksField(q)
    /\ \/ procs[p].args.username = procs[q].args.username
       \/ procs[p].args.email = procs[q].args.email

RegisteredOutcome == formatResult(responseCodes.OK, "User registered.")
DuplicateOutcomes ==
    { formatResult(responseCodes.BadRequest, "Username already registered."),
      formatResult(responseCodes.BadRequest, "Email already registered.") }

\* C29: of the concurrent registerUser calls that share a username or an
\* email at most one returns 200 "User registered." and every other one
\* 400 "Username already registered." or "Email already registered."; no
\* two stored users share a username or an email; and no call returns
\* "User already registered." or "Something went wrong registering the user".
Cex_C29 ==
    /\ \A i, j \in DOMAIN users :
            i # j => users[i].username # users[j].username /\ users[i].email # users[j].email
    /\ \A p, q \in Procs :
            (ShareIdentity(p, q) /\ Answered(p) /\ Answered(q)) =>
                /\ ~ (procs[p].result = RegisteredOutcome /\ procs[q].result = RegisteredOutcome)
                /\ procs[p].result \in DuplicateOutcomes \cup {RegisteredOutcome}
    /\ \A p \in Procs :
            procs[p].result.response \notin
                { "User already registered.",
                  "Something went wrong registering the user. Please try again later." }

\* ------------------------------------------------------------------------
\* The order of the pipeline
\* ------------------------------------------------------------------------

\* the steps taken so far were taken in the order of the statements, none twice
InOrder ==
    \A i \in 1..Len(trace) : \A j \in 1..Len(trace) :
        i < j => StepPosition(trace[i]) < StepPosition(trace[j])

\* a step of the chain was taken only after the step before it in the chain
ChainUnbroken ==
    /\ Called("evaluatePermissions") => Called("route")
    /\ Called("getTokenFromRequest")
          => (Called("evaluatePermissions") /\ ActMeta.minRole \notin {UndefinedRole, EVERYONE})
    /\ Called("verifyToken") => (Called("getTokenFromRequest") /\ token = req.token)
    /\ Called("getUserRole") => (Called("verifyToken") /\ isIdFormat(id))
    /\ Called("checkOwnership") => (Called("getUserRole") /\ role # UndefinedRole)
    /\ (HandlerRan /\ ActMeta.minRole # EVERYONE) => Called("getUserRole")

\* the response written is 403 Forbidden
Answered403 == Done /\ written.statusCode = responseCodes.Forbidden

\* C26: the steps of the pipeline run in the order metadata check, everyone
\* short-circuit, token extraction, token verification, role resolution and
\* check, ownership check, final gate, each only after the one before it; a
\* 403 is written only after the token was present, verified, carried an
\* id-format subject id and the role of the subject was found; a request to a
\* restricted action without a valid token is never answered 403, whatever
\* its path arguments are.
Thm_C26 ==
    /\ InOrder
    /\ ChainUnbroken
    /\ Answered403
          => /\ Called("getTokenFromRequest") /\ Called("verifyToken") /\ Called("getUserRole")
             /\ req.token.kind = "valid"
             /\ id = req.token.payloadId
             /\ isIdFormat(id)
             /\ role \in {ADMIN, USER}
             /\ written.body = responseForbidden(MsgForbidden)
             /\ ~ HandlerRan
    /\ (Done /\ Restricted /\ (req.token.kind # "valid" \/ ~ isIdFormat(req.token.payloadId)))
          => written.statusCode # responseCodes.Forbidden

Wit_C26 ==
    /\ Answered403
    /\ act.action = "getUserFavourites"
    /\ act.args.hasId
    /\ trace = << "route", "dbChecks", "evaluatePermissions", "getTokenFromRequest",
                  "verifyToken", "getUserRole", "checkOwnership" >>

\* ------------------------------------------------------------------------
\* The database readiness checks of the handler
\* ------------------------------------------------------------------------

\* the step of the trace at which a step was taken (0: not taken)
StepAt(step) ==
    IF Called(step) THEN CHOOSE i \in 1..Len(trace) : trace[i] = step ELSE 0

\* the readiness checks of this request found the database missing or could
\* not reach it: the catch around them logged the error and threw it on
DbNotReady ==
    /\ Called("dbChecks")
    /\ ~ Called("evaluatePermissions")
    /\ err.message \in DalErrorTexts \cup {"DB does not exist."}

\* the request was routed to responseNotFound
RoutedNotFound == Called("route") /\ act.action = "responseNotFound"

\* C30: the readiness checks of the database run after routing and before
\* the permission evaluation for every routed action except responseNotFound;
\* when they find the database missing or unreachable the request is answered
\* 500 with their message, with or without a token and whatever the minRole
\* of the action (no token is read, nothing is evaluated, the handler does
\* not run, so never 401 or 403); a request routed to responseNotFound takes
\* no step of the data layer and, the action being registered, is answered
\* 404 by the action.
Thm_C30 ==
    /\ Called("dbChecks")
          => /\ StepAt("route") > 0 /\ StepAt("route") < StepAt("dbChecks")
             /\ act.action # "responseNotFound"
    /\ (Called("evaluatePermissions") /\ act.action # "responseNotFound")
          => (StepAt("dbChecks") > 0 /\ StepAt("dbChecks") < StepAt("evaluatePermissions"))
    /\ DbNotReady
          => /\ pc \in {"send", "done"}
             /\ result = responseInternalServerError(MsgDatabase)
             /\ trace[Len(trace)] = "dbChecks"
             /\ token = NoRequest.token /\ id = Undefined /\ role = UndefinedRole
             /\ ~ hasRolePermission /\ ~ hasOwnershipPermission
    /\ (Done /\ DbNotReady)
          => /\ written.statusCode = responseCodes.InternalServerError
             /\ written.body = responseInternalServerError(MsgDatabase)
    /\ RoutedNotFound
          => /\ ~ Called("dbChecks") /\ ~ Called("getUserRole")
             /\ err.message \notin DalErrorTexts \cup {"DB does not exist."}
             /\ (Done /\ ActMeta = NotFoundMeta)
                    => /\ written.statusCode = responseCodes.NotFound
                       /\ HandlerRan

Wit_C30 ==
    /\ Done
    /\ DbNotReady
    /\ err.message = "DB does not exist."
    /\ act.action = "getVenues"
    /\ ActMeta.minRole = EVERYONE
    /\ req.token.kind = "absent"
    /\ written.statusCode = 500

\* ------------------------------------------------------------------------
\* Module loading as it runs: the registration loops run to their end
\* ------------------------------------------------------------------------

\* api.js initialise: the table is a literal of function declarations and the
\* loop assigns two properties to each, so it runs over all the items
ApiInitialiseAll ==
    /\ pc = "api.initialise"
    /\ meta' = Register(meta, ApiPermissions, Len(ApiPermissions))
    /\ pc' = "tests.initialise"
    /\ UNCHANGED apiVars
    /\ UNCHANGED << cli, nodeEnv, req, postData, act, result, err, token, id, role,
                    hasRolePermission, hasOwnershipPermission, trace, written >>

\* tests.js initialise, loaded by server.js after api.js
TestsInitialiseAll ==
    /\ pc = "tests.initialise"
    /\ meta' = Register(meta, TestsPermissions, Len(TestsPermissions))
    /\ pc' = "processCommandLine"
    /\ UNCHANGED apiVars
    /\ UNCHANGED << cli, nodeEnv, req, postData, act, result, err, token, id, role,
                    hasRolePermission, hasOwnershipPermission, trace, written >>

LoadNext ==
    \/ ApiInitialiseAll
    \/ TestsInitialiseAll
    \/ ProcessCommandLine
    \/ InitialiseReturn
    \/ Receive
    \/ GetPostData
    \/ RouteRequest
    \/ DbChecks
    \/ MetadataCheck
    \/ GetToken
    \/ GetId
    \/ CheckRole
    \/ CheckOwnership
    \/ Gate
    \/ Send
    \/ Return

LoadSpec == Init /\ [][LoadNext]_vars

\* the method and the path of every request considered, with the post data
\* the handler passes to route() for it
RouteInputs ==
    { << r, pd >> \in Requests \X {NoArgs, PostArgs} :
            /\ r.token = NoRequest.token
            /\ r.body \in {"none", "object"}
            /\ (pd = PostArgs) <=> (r.method = "POST") }

\* what route() can return in this environment
RouteResults == { route(x[1], x[2]) : x \in RouteInputs }

\* the modules are loaded: both initialise functions have returned
Loaded == pc \notin {"api.initialise", "tests.initialise"}

\* the 500 of a missing role flag, of an unset owner flag, of a missing args.id
MisconfigurationSeen ==
    \/ err.code \in {"KE110", "KE111"}
    \/ err.message = "Role flag has not been set for Action"
    \/ result.response \in {MsgMisconfigured, MsgOwnershipVerify}
    \/ written.body.response \in {MsgMisconfigured, MsgOwnershipVerify}

\* C27: once the modules are loaded, hence before the listener takes its
\* first request, every action route() can return (general routes, dev-only
\* routes with runAdminTests, responseNotFound) has minRole in {ADMIN, USER,
\* EVERYONE} and a boolean hasOwner; every action with hasOwner = true is
\* returned with args that own an id; and the 500 outcomes of a missing
\* role flag, of an unset owner flag (KE110) and of a missing args.id
\* (KE111) do not occur for any request.
Thm_C27 ==
    /\ Loaded
          => \A a \in RouteResults :
                /\ a.action \in Actions
                /\ meta[a.action].minRole \in Role
                /\ meta[a.action].hasOwner \in {"true", "false"}
                /\ meta[a.action].hasOwner = "true" => (a.args.t = "object" /\ a.args.hasId)
    /\ Called("route")
          => /\ act \in RouteResults
             /\ ActMeta.minRole \in Role
             /\ ActMeta.hasOwner \in {"true", "false"}
    /\ ~ MisconfigurationSeen

Wit_C27 ==
    /\ Done
    /\ nodeEnv = "development"
    /\ act.action = "runAdminTests"
    /\ Called("checkOwnership")
    /\ role = USER
    /\ written.statusCode = 403

====
